---- MODULE Spec2Model ----
(***************************************************************************)
(* Verification model of the prose-core-client messaging pipeline.         *)
(*                                                                         *)
(* Part 1: the message event reducer, Message::reducing_messages           *)
(* (domain/messaging/models/message.rs), which folds a sequence of         *)
(* MessageLike events into the list of logical messages.                   *)
(*                                                                         *)
(* Encoding conventions                                                    *)
(*   - Option<T> is a sequence of length 0 (None) or 1 (Some(x)).          *)
(*   - identifiers (MessageId, StanzaId) are strings modelled as sequences *)
(*     of characters, so that starts_with("!!") is computed, not assumed.  *)
(*   - IndexMap is a sequence of [key, value] entries (insertion order);   *)
(*     HashMap is a TLA+ function.                                         *)
(***************************************************************************)
EXTENDS Integers, Sequences, FiniteSets, TLC

VARIABLES
    input,              \* the events handed to reducing_messages
    pc,                 \* "pass1" | "pass2" | "done"
    rest,               \* what the first loop's iterator still holds
    messages_map,       \* IndexMap<MessageId, Option<Message>>
    stanza_to_id_map,   \* HashMap<StanzaId, MessageId>
    modifiers,          \* Vec<MessageLike>: buffered, then consumed by loop 2
    result,             \* the returned Vec<Message>
    data,               \* RoomInner.data: room_id, type, settings, statistics flag
    message_repo,       \* MessagesRepository: the room's MessageLike rows
    dispatched,         \* what client_event_dispatcher was handed, in order
    wire,               \* the calls made to MessagingService, in order
    saved_settings,     \* what SyncedRoomSettingsService::save_settings was handed
    calls,              \* the Room operations in flight: position and locals
    id_provider,        \* how many ids id_provider.new_id() has handed out
    time_provider,      \* the clock behind time_provider.now()
    archive,            \* the room's server-side archive, oldest item first
    ctx,                \* the application context: config, connection_timestamp
    local_room_settings, \* LocalRoomSettings: last_catchup_time, last_read_message
    session_repo,       \* SessionRepository: the session with each user's device
    user_device_repo,   \* UserDeviceRepository: each user's device list
    encryption_keys_repo, \* EncryptionKeysRepository: local device, its pre-keys
    user_device_service, \* the server side: published device list and bundles
    unpublish_device_attempts, \* HashSet<DeviceId>
    repair_session_attempts,   \* HashSet<(UserId, DeviceId)>
    encryption_calls,   \* what the EncryptionDomainService was asked and did, in order
    user_profile_repo,  \* UserProfileRepository: the display name of each user
    client,             \* the JSConnection a Connector was provided with
    ping_interval,      \* the Interval behind ConnectionEvent::PingTimer
    timeout_interval,   \* the Interval behind ConnectionEvent::TimeoutTimer
    delivered,          \* the events the ConnectionEventHandler was called with
    connected_rooms,    \* ClientInner.connected_rooms: room jid -> Room
    entered,            \* the rooms enter_room was called for, in order
    is_observing_rooms, \* AppContext.is_observing_rooms
    loaded,             \* the calls of load_and_extend_items_from_bookmarks
    client_calls        \* the Connector, Client and RoomsService calls in flight

\* the locals of Message::reducing_messages
reducer_vars == <<input, pc, rest, messages_map, stanza_to_id_map, modifiers, result>>

\* the fields of RoomInner the Room operations read and write
room_vars ==
    <<data, message_repo, dispatched, wire, saved_settings, calls, id_provider,
      time_provider>>

\* what history loading reads beside the Room
history_vars == <<archive, ctx, local_room_settings>>

\* the fields of EncryptionDomainService and what lies behind them
encryption_vars ==
    <<session_repo, user_device_repo, encryption_keys_repo, user_device_service,
      unpublish_device_attempts, repair_session_attempts, encryption_calls>>

\* the connection of the client, its rooms and what RoomsService observes
client_vars ==
    <<user_profile_repo, client, ping_interval, timeout_interval, delivered,
      connected_rooms, entered, is_observing_rooms, loaded, client_calls>>

vars == <<reducer_vars, room_vars, history_vars, encryption_vars, client_vars>>

----------------------------------------------------------------------------
(* Option and sequence helpers *)

None == <<>>

Some(x) == <<x>>

IsSome(o) == Len(o) = 1

Range(s) == {s[i] : i \in DOMAIN s}

Contains(s, x) == \E i \in DOMAIN s : s[i] = x

RemoveAt(s, j) == [i \in 1..(Len(s) - 1) |-> IF i < j THEN s[i] ELSE s[i + 1]]

----------------------------------------------------------------------------
(* MessageLikeId (message_like.rs) *)

Bang == "!"

\* str::starts_with("!!")
StartsWithBangs(id) == Len(id) >= 2 /\ id[1] = Bang /\ id[2] = Bang

\* MessageLikeId::new: keeps a given id, synthesizes "!!" + uuid otherwise
MessageLikeId_new(id, uuid) == IF IsSome(id) THEN id[1] ELSE <<Bang, Bang>> \o uuid

\* mutant: the generated id is handed out as if it were the original one
into_original_id_Leaky(id) == Some(id)

\* MessageLikeId::into_original_id
into_original_id(id) == IF StartsWithBangs(id) THEN None ELSE Some(id)

----------------------------------------------------------------------------
(* IndexMap / HashMap *)

IndexOfKey(map, k) ==
    IF \E i \in DOMAIN map : map[i].key = k
    THEN CHOOSE i \in DOMAIN map : map[i].key = k
    ELSE 0

\* mutant: a known key keeps the value it has
IndexMapInsert_KeepsFirst(map, k, v) ==
    IF IndexOfKey(map, k) = 0
    THEN Append(map, [key |-> k, value |-> v])
    ELSE map

\* mutant: a known key is removed and appended again (it moves to the end)
IndexMapInsert_MoveToEnd(map, k, v) ==
    Append(SelectSeq(map, LAMBDA e : e.key /= k), [key |-> k, value |-> v])

\* IndexMap::insert: a known key keeps its position and takes the new value
IndexMapInsert(map, k, v) ==
    IF IndexOfKey(map, k) = 0
    THEN Append(map, [key |-> k, value |-> v])
    ELSE [map EXCEPT ![IndexOfKey(map, k)].value = v]

\* IndexMap::get_mut, flattened as in `let Some(Some(message)) = ...`:
\* None for an unknown key and for a key whose value is None
IndexMapGet(map, k) ==
    IF IndexOfKey(map, k) = 0 THEN None ELSE map[IndexOfKey(map, k)].value

\* A write through the `&mut Message` that get_mut handed out
IndexMapSet(map, k, message) ==
    [map EXCEPT ![IndexOfKey(map, k)].value = Some(message)]

HashMapInsert(m, k, v) ==
    [x \in (DOMAIN m) \cup {k} |-> IF x = k THEN v ELSE m[x]]

HashMapGet(m, k) == IF k \in DOMAIN m THEN Some(m[k]) ELSE None

----------------------------------------------------------------------------
(* Message::reducing_messages (message.rs 83-248) *)

\* The Message arm's construction of the logical message (98-117)
NewMessage(msg) ==
    [ remote_id    |-> into_original_id(msg.id),
      server_id    |-> msg.stanza_id,
      from         |-> msg.from,
      body         |-> [raw |-> msg.payload.body.raw, html |-> msg.payload.body.html],
      timestamp    |-> msg.timestamp,
      is_read      |-> FALSE,
      is_edited    |-> FALSE,
      is_delivered |-> FALSE,
      is_transient |-> msg.payload.is_transient,
      is_encrypted |-> IsSome(msg.payload.encryption_info),
      reactions    |-> <<>>,
      attachments  |-> msg.payload.attachments,
      mentions     |-> msg.payload.body.mentions ]

\* The Error arm's construction of the logical message (126-145)
ErrorMessage(msg) ==
    [ remote_id    |-> into_original_id(msg.id),
      server_id    |-> msg.stanza_id,
      from         |-> msg.from,
      body         |-> [raw |-> msg.payload.message, html |-> msg.payload.message],
      timestamp    |-> msg.timestamp,
      is_read      |-> FALSE,
      is_edited    |-> FALSE,
      is_delivered |-> FALSE,
      is_transient |-> FALSE,
      is_encrypted |-> FALSE,
      reactions    |-> <<>>,
      attachments  |-> <<>>,
      mentions     |-> <<>> ]

IsMessageOrError(msg) == msg.payload.kind \in {"Message", "Error"}

\* Target resolution of the second loop (163-172): Option<MessageId>
ResolveMessageId(stanza_map, target_id) ==
    IF target_id.kind = "RemoteId"
    THEN Some(target_id.id)
    ELSE HashMapGet(stanza_map, target_id.id)

\* mutant: the Correction arm forgets `message.is_edited = true`
ApplyCorrection_NoFlag(message, payload) ==
    [message EXCEPT
        !.body         = [raw |-> payload.body.raw, html |-> payload.body.html],
        !.mentions     = payload.body.mentions,
        !.attachments  = payload.attachments,
        !.is_encrypted = IsSome(payload.encryption_info)]

\* mutant: only the first Correction is taken
ApplyCorrection_FirstWins(message, payload) ==
    IF message.is_edited THEN message
    ELSE [message EXCEPT
            !.body         = [raw |-> payload.body.raw, html |-> payload.body.html],
            !.mentions     = payload.body.mentions,
            !.is_edited    = TRUE,
            !.attachments  = payload.attachments,
            !.is_encrypted = IsSome(payload.encryption_info)]

\* The Correction arm (180-193)
ApplyCorrection(message, payload) ==
    [message EXCEPT
        !.body         = [raw |-> payload.body.raw, html |-> payload.body.html],
        !.mentions     = payload.body.mentions,
        !.is_edited    = TRUE,
        !.attachments  = payload.attachments,
        !.is_encrypted = IsSome(payload.encryption_info)]

\* Index of the emoji the reverse scan (204-220) stops at: the last occurrence
LastIndexOf(emojis, emoji) ==
    IF Contains(emojis, emoji)
    THEN CHOOSE j \in DOMAIN emojis :
            emojis[j] = emoji /\ \A k \in DOMAIN emojis : emojis[k] = emoji => k <= j
    ELSE 0

\* The 'outer loop over the existing reactions (203-225); carries `emojis`,
\* which shrinks by one for every reaction that matched.
RECURSIVE ScanReactions(_, _, _, _)
ScanReactions(reactions, emojis, modifier_from, done) ==
    IF reactions = <<>>
    THEN [reactions |-> done, emojis |-> emojis]
    ELSE LET reaction == Head(reactions)
             j        == LastIndexOf(emojis, reaction.emoji)
         IN  IF j > 0
             THEN ScanReactions(
                    Tail(reactions), RemoveAt(emojis, j), modifier_from,
                    Append(done,
                        IF Contains(reaction.from, modifier_from)
                        THEN reaction
                        ELSE [reaction EXCEPT !.from = Append(@, modifier_from)]))
             ELSE ScanReactions(
                    Tail(reactions), emojis, modifier_from,
                    Append(done,
                        [reaction EXCEPT
                            !.from = SelectSeq(@, LAMBDA f : f /= modifier_from)]))

\* mutant: the payload's emojis are added, the actor is never taken off a
\* reaction the payload leaves out
ApplyReaction_AddOnly(reactions, modifier_from, emojis) ==
    LET known == {reactions[i].emoji : i \in DOMAIN reactions}
        fresh == SelectSeq(emojis, LAMBDA e : e \notin known)
    IN  [i \in DOMAIN reactions |->
            IF Contains(emojis, reactions[i].emoji)
               /\ ~Contains(reactions[i].from, modifier_from)
            THEN [reactions[i] EXCEPT !.from = Append(@, modifier_from)]
            ELSE reactions[i]]
        \o [i \in 1..Len(fresh) |-> [emoji |-> fresh[i], from |-> <<modifier_from>>]]

\* mutant: every emoji of the payload toggles the actor's membership, as
\* Message::toggle_reaction does for one emoji
ApplyReaction_Toggle(reactions, modifier_from, emojis) ==
    LET known   == {reactions[i].emoji : i \in DOMAIN reactions}
        fresh   == SelectSeq(emojis, LAMBDA e : e \notin known)
        toggled == [i \in DOMAIN reactions |->
                      IF ~Contains(emojis, reactions[i].emoji) THEN reactions[i]
                      ELSE IF Contains(reactions[i].from, modifier_from)
                      THEN [reactions[i] EXCEPT
                              !.from = SelectSeq(@, LAMBDA f : f /= modifier_from)]
                      ELSE [reactions[i] EXCEPT !.from = Append(@, modifier_from)]]
    IN  SelectSeq(toggled, LAMBDA r : r.from /= <<>>)
        \o [i \in 1..Len(fresh) |-> [emoji |-> fresh[i], from |-> <<modifier_from>>]]

\* The Reaction arm (199-240)
ApplyReaction(reactions, modifier_from, emojis) ==
    LET scanned == ScanReactions(reactions, emojis, modifier_from, <<>>)
        kept    == SelectSeq(scanned.reactions, LAMBDA r : r.from /= <<>>)
    IN  kept \o [i \in 1..Len(scanned.emojis) |->
                    [emoji |-> scanned.emojis[i], from |-> <<modifier_from>>]]

\* mutant: IndexMap::swap_remove, which moves the last entry into the hole
ApplyRetraction_SwapRemove(map, message_id) ==
    LET i == IndexOfKey(map, message_id)
        n == Len(map)
    IN  IF i = 0 THEN map
        ELSE [j \in 1..(n - 1) |-> IF j = i THEN map[n] ELSE map[j]]

\* The Retraction arm (241-243)
ApplyRetraction(map, message_id) == IndexMapInsert(map, message_id, None)

\* mutant: a receipt flips its flag instead of setting it
ApplyModifier_ReceiptToggles(map, message_id, message, modifier) ==
    CASE modifier.payload.kind = "Correction" ->
            IndexMapSet(map, message_id, ApplyCorrection(message, modifier.payload))
      [] modifier.payload.kind = "DeliveryReceipt" ->
            IndexMapSet(map, message_id, [message EXCEPT !.is_delivered = ~@])
      [] modifier.payload.kind = "ReadReceipt" ->
            IndexMapSet(map, message_id, [message EXCEPT !.is_read = ~@])
      [] modifier.payload.kind = "Reaction" ->
            IndexMapSet(map, message_id,
                [message EXCEPT
                    !.reactions =
                        ApplyReaction(@, modifier.from, modifier.payload.emojis)])
      [] modifier.payload.kind = "Retraction" ->
            ApplyRetraction(map, message_id)

\* The match on the modifier's payload (179-244), on a message that is there
ApplyModifier(map, message_id, message, modifier) ==
    CASE modifier.payload.kind = "Correction" ->
            IndexMapSet(map, message_id, ApplyCorrection(message, modifier.payload))
      [] modifier.payload.kind = "DeliveryReceipt" ->
            IndexMapSet(map, message_id, [message EXCEPT !.is_delivered = TRUE])
      [] modifier.payload.kind = "ReadReceipt" ->
            IndexMapSet(map, message_id, [message EXCEPT !.is_read = TRUE])
      [] modifier.payload.kind = "Reaction" ->
            IndexMapSet(map, message_id,
                [message EXCEPT
                    !.reactions =
                        ApplyReaction(@, modifier.from, modifier.payload.emojis)])
      [] modifier.payload.kind = "Retraction" ->
            ApplyRetraction(map, message_id)

\* mutant: `break` instead of `continue` for a modifier whose target is
\* unknown or retracted
Pass2Step_BreakOnUnknown(st) ==
    LET modifier == Head(st.modifiers)
        next     == [st EXCEPT !.modifiers = Tail(@)]
        stop     == [st EXCEPT !.modifiers = <<>>]
    IN  IF ~IsSome(modifier.target)
        THEN next
        ELSE LET message_id == ResolveMessageId(st.stanza_to_id_map, modifier.target[1])
             IN  IF ~IsSome(message_id)
                 THEN next
                 ELSE LET message == IndexMapGet(st.messages_map, message_id[1])
                      IN  IF ~IsSome(message)
                          THEN stop
                          ELSE [next EXCEPT
                                  !.messages_map =
                                      ApplyModifier(@, message_id[1], message[1], modifier)]

\* mutant: `break` instead of `continue` for a modifier without target or with
\* an unresolved server id
Pass2Step_BreakOnOrphan(st) ==
    LET modifier == Head(st.modifiers)
        next     == [st EXCEPT !.modifiers = Tail(@)]
        stop     == [st EXCEPT !.modifiers = <<>>]
    IN  IF ~IsSome(modifier.target)
        THEN stop
        ELSE LET message_id == ResolveMessageId(st.stanza_to_id_map, modifier.target[1])
             IN  IF ~IsSome(message_id)
                 THEN stop
                 ELSE LET message == IndexMapGet(st.messages_map, message_id[1])
                      IN  IF ~IsSome(message)
                          THEN next
                          ELSE [next EXCEPT
                                  !.messages_map =
                                      ApplyModifier(@, message_id[1], message[1], modifier)]

\* One iteration of the second loop (157-245): takes the next buffered modifier
Pass2Step(st) ==
    LET modifier == Head(st.modifiers)
        next     == [st EXCEPT !.modifiers = Tail(@)]
    IN  IF ~IsSome(modifier.target)
        THEN next                                   \* "Missing target": continue
        ELSE LET message_id == ResolveMessageId(st.stanza_to_id_map, modifier.target[1])
             IN  IF ~IsSome(message_id)
                 THEN next                          \* unresolved StanzaId: continue
                 ELSE LET message == IndexMapGet(st.messages_map, message_id[1])
                      IN  IF ~IsSome(message)
                          THEN next                 \* unknown or retracted: continue
                          ELSE [next EXCEPT
                                  !.messages_map =
                                      ApplyModifier(@, message_id[1], message[1], modifier)]

\* mutant: a single pass, every modifier applied where it stands
Pass1Step_SinglePass(st, msg) ==
    CASE msg.payload.kind = "Message" ->
            [st EXCEPT
                !.stanza_to_id_map =
                    IF IsSome(msg.stanza_id)
                    THEN HashMapInsert(@, msg.stanza_id[1], msg.id) ELSE @,
                !.messages_map = IndexMapInsert(@, msg.id, Some(NewMessage(msg)))]
      [] msg.payload.kind = "Error" ->
            [st EXCEPT
                !.stanza_to_id_map =
                    IF IsSome(msg.stanza_id)
                    THEN HashMapInsert(@, msg.stanza_id[1], msg.id) ELSE @,
                !.messages_map = IndexMapInsert(@, msg.id, Some(ErrorMessage(msg)))]
      [] OTHER ->
            Pass2Step([st EXCEPT !.modifiers = <<msg>>])

\* One iteration of the first loop (90-155)
Pass1Step(st, msg) ==
    CASE msg.payload.kind = "Message" ->
            [st EXCEPT
                !.stanza_to_id_map =
                    IF IsSome(msg.stanza_id)
                    THEN HashMapInsert(@, msg.stanza_id[1], msg.id) ELSE @,
                !.messages_map = IndexMapInsert(@, msg.id, Some(NewMessage(msg)))]
      [] msg.payload.kind = "Error" ->
            [st EXCEPT
                !.stanza_to_id_map =
                    IF IsSome(msg.stanza_id)
                    THEN HashMapInsert(@, msg.stanza_id[1], msg.id) ELSE @,
                !.messages_map = IndexMapInsert(@, msg.id, Some(ErrorMessage(msg)))]
      [] OTHER ->
            [st EXCEPT !.modifiers = Append(@, msg)]

\* messages_map.into_values().filter_map(|msg| msg).collect() (247)
Collect(map) ==
    LET live == SelectSeq(map, LAMBDA e : IsSome(e.value))
    IN  [i \in 1..Len(live) |-> live[i].value[1]]

EmptyState == [messages_map |-> <<>>, stanza_to_id_map |-> <<>>, modifiers |-> <<>>]

RECURSIVE Pass1Loop(_, _)
Pass1Loop(st, messages) ==
    IF messages = <<>> THEN st
    ELSE Pass1Loop(Pass1Step(st, Head(messages)), Tail(messages))

RECURSIVE Pass2Loop(_)
Pass2Loop(st) == IF st.modifiers = <<>> THEN st ELSE Pass2Loop(Pass2Step(st))

reducing_messages(messages) ==
    Collect(Pass2Loop(Pass1Loop(EmptyState, messages)).messages_map)

----------------------------------------------------------------------------
(* The events the reducer is run on *)

\* struct MessageLike, as message.rs builds it in test_reduces_emojis (376-452)
MessageLike(id, stanza_id, target, from, payload) ==
    [ id        |-> id,
      stanza_id |-> stanza_id,
      target    |-> target,
      to        |-> Some("a@prose.org"),
      from      |-> from,
      timestamp |-> 0,
      payload   |-> payload ]

RemoteId(id) == [kind |-> "RemoteId", id |-> id]

ServerId(id) == [kind |-> "ServerId", id |-> id]

MessageLikeBody(text, mentions) == [raw |-> text, html |-> text, mentions |-> mentions]

PayloadMessage(text, attachments) ==
    [ kind            |-> "Message",
      body            |-> MessageLikeBody(text, <<>>),
      attachments     |-> attachments,
      encryption_info |-> None,
      is_transient    |-> FALSE ]

PayloadError(text) == [kind |-> "Error", message |-> text]

PayloadCorrection(text, mentions, attachments) ==
    [ kind            |-> "Correction",
      body            |-> MessageLikeBody(text, mentions),
      attachments     |-> attachments,
      encryption_info |-> None ]

PayloadReaction(emojis) == [kind |-> "Reaction", emojis |-> emojis]

PayloadRetraction == [kind |-> "Retraction"]

PayloadDeliveryReceipt == [kind |-> "DeliveryReceipt"]

PayloadReadReceipt == [kind |-> "ReadReceipt"]

Id1 == MessageLikeId_new(Some(<<"1">>), <<"u">>)

Id2 == MessageLikeId_new(Some(<<"2">>), <<"u">>)

IdUnknown == MessageLikeId_new(Some(<<"9">>), <<"u">>)

\* the id of a stanza that came without one
IdGenerated == MessageLikeId_new(None, <<"u">>)

S1 == <<"s", "1">>

S2 == <<"s", "2">>

\* Longest input of the general specification
MaxLen == 4

SeqsUpTo(U, n) == UNION {[1..k -> U] : k \in 0..n}

\* Message and Error events: two client ids and a generated one, an id that
\* occurs twice (with another stanza id), a stanza id that occurs twice (under
\* another client id)
MessageEvents ==
    { MessageLike(Id1, Some(S1), None, "a", PayloadMessage("A", <<"f0">>)),
      MessageLike(Id1, Some(S2), None, "b", PayloadMessage("B", <<>>)),
      MessageLike(IdGenerated, None, None, "a", PayloadMessage("A", <<>>)),
      MessageLike(Id2, Some(S1), None, "b", PayloadError("E")) }

\* Modifiers: every payload kind; targets by client id and by server id; the
\* three kinds of orphan (no target, unknown server id, unknown client id)
ModifierEvents ==
    { MessageLike(IdGenerated, None, Some(RemoteId(Id1)), "a",
          PayloadCorrection("C", <<"@b">>, <<"f1">>)),
      MessageLike(IdGenerated, None, Some(ServerId(S1)), "a",
          PayloadCorrection("D", <<>>, <<>>)),
      MessageLike(IdGenerated, None, Some(RemoteId(Id2)), "a", PayloadRetraction),
      MessageLike(IdGenerated, None, Some(ServerId(S2)), "b", PayloadReaction(<<"x">>)),
      MessageLike(IdGenerated, None, Some(RemoteId(IdGenerated)), "b", PayloadReadReceipt),
      MessageLike(IdGenerated, None, None, "b", PayloadDeliveryReceipt),
      MessageLike(IdGenerated, None, Some(RemoteId(IdUnknown)), "b", PayloadDeliveryReceipt) }

Events == MessageEvents \cup ModifierEvents

Inputs == SeqsUpTo(Events, MaxLen)

----------------------------------------------------------------------------
(* reducing_messages as a state machine: one step per loop iteration *)

State == [messages_map |-> messages_map,
          stanza_to_id_map |-> stanza_to_id_map,
          modifiers |-> modifiers]

\* no connection, no Client and no RoomsService
ClientAbsent ==
    /\ user_profile_repo = <<>>
    /\ client = "none"
    /\ ping_interval = <<>>
    /\ timeout_interval = <<>>
    /\ delivered = <<>>
    /\ connected_rooms = <<>>
    /\ entered = <<>>
    /\ is_observing_rooms = FALSE
    /\ loaded = <<>>
    /\ client_calls = <<>>

\* no encryption service
EncryptionAbsent ==
    /\ session_repo = <<>>
    /\ user_device_repo = <<>>
    /\ encryption_keys_repo = <<>>
    /\ user_device_service = <<>>
    /\ unpublish_device_attempts = {}
    /\ repair_session_attempts = {}
    /\ encryption_calls = <<>>

\* no archive, no context: history loading is not running
HistoryAbsent ==
    /\ archive = <<>>
    /\ ctx = <<>>
    /\ local_room_settings = <<>>

RoomAbsent ==
    /\ data = <<>>
    /\ message_repo = <<>>
    /\ dispatched = <<>>
    /\ wire = <<>>
    /\ saved_settings = <<>>
    /\ calls = <<>>
    /\ id_provider = 0
    /\ time_provider = 0
    /\ HistoryAbsent
    /\ EncryptionAbsent
    /\ ClientAbsent

InitOn(inputs) ==
    /\ RoomAbsent
    /\ input \in inputs
    /\ pc = "run"
    /\ rest = input
    /\ messages_map = <<>>
    /\ stanza_to_id_map = <<>>
    /\ modifiers = <<>>
    /\ result = <<>>

\* for msg in messages.into_iter() { ... } (90-155)
FirstLoop ==
    /\ pc = "run"
    /\ rest /= <<>>
    /\ LET st == Pass1Step(State, Head(rest))
       IN  /\ messages_map' = st.messages_map
           /\ stanza_to_id_map' = st.stanza_to_id_map
           /\ modifiers' = st.modifiers
    /\ rest' = Tail(rest)
    /\ UNCHANGED <<input, pc, result>>
    /\ UNCHANGED <<room_vars, history_vars, encryption_vars, client_vars>>

\* for modifier in modifiers.into_iter() { ... } (157-245)
SecondLoop ==
    /\ pc = "run"
    /\ rest = <<>>
    /\ modifiers /= <<>>
    /\ LET st == Pass2Step(State)
       IN  /\ messages_map' = st.messages_map
           /\ stanza_to_id_map' = st.stanza_to_id_map
           /\ modifiers' = st.modifiers
    /\ UNCHANGED <<input, pc, rest, result>>
    /\ UNCHANGED <<room_vars, history_vars, encryption_vars, client_vars>>

\* messages_map.into_values().filter_map(|msg| msg).collect() (247)
Return ==
    /\ pc = "run"
    /\ rest = <<>>
    /\ modifiers = <<>>
    /\ result' = Collect(messages_map)
    /\ pc' = "done"
    /\ UNCHANGED <<input, rest, messages_map, stanza_to_id_map, modifiers>>
    /\ UNCHANGED <<room_vars, history_vars, encryption_vars, client_vars>>

Next == FirstLoop \/ SecondLoop \/ Return

Init == InitOn(Inputs)

Spec == Init /\ [][Next]_vars

----------------------------------------------------------------------------
(* Inputs for the reaction folding: two messages, two actors, emoji lists that
   are empty, repeat an emoji, overlap and differ in order *)

\* Longest input of the reaction specification
MaxLenReact == 4

ReactEvents ==
    { MessageLike(Id1, Some(S1), None, "a", PayloadMessage("A", <<>>)),
      MessageLike(Id2, None, None, "b", PayloadMessage("B", <<>>)),
      MessageLike(IdGenerated, None, Some(RemoteId(Id1)), "a", PayloadReaction(<<"x">>)),
      MessageLike(IdGenerated, None, Some(ServerId(S1)), "a", PayloadReaction(<<"y", "x">>)),
      MessageLike(IdGenerated, None, Some(RemoteId(Id1)), "a", PayloadReaction(<<>>)),
      MessageLike(IdGenerated, None, Some(RemoteId(Id1)), "a", PayloadReaction(<<"x", "x">>)),
      MessageLike(IdGenerated, None, Some(RemoteId(Id1)), "b", PayloadReaction(<<"x">>)),
      MessageLike(IdGenerated, None, Some(RemoteId(Id1)), "b", PayloadReaction(<<"y">>)),
      MessageLike(IdGenerated, None, Some(RemoteId(Id2)), "a", PayloadReaction(<<"y">>)),
      MessageLike(IdGenerated, None, Some(RemoteId(Id2)), "b", PayloadRetraction) }

Actors == {"a", "b"}

InitReact == InitOn(SeqsUpTo(ReactEvents, MaxLenReact))

SpecReact == InitReact /\ [][Next]_vars

(* Inputs for retraction: three messages, retractions by client id and by
   server id, modifiers addressed to the retracted and to the other messages *)

\* Longest input of the retraction specification
MaxLenRetract == 4

RetractEvents ==
    { MessageLike(Id1, Some(S1), None, "a", PayloadMessage("A", <<>>)),
      MessageLike(Id2, Some(S2), None, "b", PayloadMessage("B", <<>>)),
      MessageLike(IdGenerated, None, None, "b", PayloadError("E")),
      MessageLike(IdGenerated, None, Some(RemoteId(Id1)), "a", PayloadRetraction),
      MessageLike(IdGenerated, None, Some(ServerId(S2)), "b", PayloadRetraction),
      MessageLike(IdGenerated, None, Some(ServerId(S1)), "a",
          PayloadCorrection("C", <<>>, <<>>)),
      MessageLike(IdGenerated, None, Some(RemoteId(Id1)), "b", PayloadReaction(<<"x">>)),
      MessageLike(IdGenerated, None, Some(ServerId(S2)), "b",
          PayloadCorrection("D", <<>>, <<>>)) }

InitRetract == InitOn(SeqsUpTo(RetractEvents, MaxLenRetract))

SpecRetract == InitRetract /\ [][Next]_vars

(* Inputs for the reordering of events: the events of the general
   specification, in shorter inputs *)

\* Longest input of the reordering specification
MaxLenStable == 3

InitStable == InitOn(SeqsUpTo(Events, MaxLenStable))

SpecStable == InitStable /\ [][Next]_vars

(* Inputs for the receipts: two messages, one of them sent twice, delivery and
   read receipts by client id and by server id, and the modifiers that could
   undo a flag (a Correction of the message, a Retraction of the other one) *)

\* Longest input of the receipt specification
MaxLenReceipt == 4

ReceiptEvents ==
    { MessageLike(Id1, Some(S1), None, "a", PayloadMessage("A", <<>>)),
      MessageLike(Id1, Some(S2), None, "a", PayloadMessage("B", <<>>)),
      MessageLike(Id2, None, None, "b", PayloadMessage("B", <<>>)),
      MessageLike(IdGenerated, None, Some(RemoteId(Id1)), "b", PayloadDeliveryReceipt),
      MessageLike(IdGenerated, None, Some(ServerId(S1)), "b", PayloadReadReceipt),
      MessageLike(IdGenerated, None, Some(RemoteId(Id2)), "a", PayloadReadReceipt),
      MessageLike(IdGenerated, None, Some(RemoteId(Id1)), "a",
          PayloadCorrection("C", <<>>, <<>>)),
      MessageLike(IdGenerated, None, Some(RemoteId(Id2)), "b", PayloadRetraction) }

InitReceipt == InitOn(SeqsUpTo(ReceiptEvents, MaxLenReceipt))

SpecReceipt == InitReceipt /\ [][Next]_vars

----------------------------------------------------------------------------
(* What the input says, read off the events alone (not off the reducer's state) *)

Max(S) == CHOOSE x \in S : \A y \in S : y <= x

Min(S) == CHOOSE x \in S : \A y \in S : x <= y

Done == pc = "done"

\* positions of the Message/Error events
MessageIndices(inp) == {i \in DOMAIN inp : IsMessageOrError(inp[i])}

ModifierIndices(inp) == (DOMAIN inp) \ MessageIndices(inp)

HasMessage(inp, k) == \E i \in MessageIndices(inp) : inp[i].id = k

\* the last Message/Error event with client id k
LastEventWithId(inp, k) == inp[Max({i \in MessageIndices(inp) : inp[i].id = k})]

StanzaCarriers(inp, s) == {i \in MessageIndices(inp) : inp[i].stanza_id = Some(s)}

\* The client id a modifier's target stands for: the id itself, or for a
\* server id the client id of the last Message/Error event that carries it.
TargetKey(inp, e) ==
    IF e.target = None THEN None
    ELSE IF e.target[1].kind = "RemoteId" THEN Some(e.target[1].id)
    ELSE IF StanzaCarriers(inp, e.target[1].id) = {} THEN None
    ELSE Some(inp[Max(StanzaCarriers(inp, e.target[1].id))].id)

\* modifier events of a kind that target the message with client id k
Targeting(inp, kind, k) ==
    {i \in ModifierIndices(inp) :
        inp[i].payload.kind = kind /\ TargetKey(inp, inp[i]) = Some(k)}

Killed(inp, k) == Targeting(inp, "Retraction", k) /= {}

\* distinct client ids of the Message/Error events, by first occurrence
RECURSIVE FirstOccurrences(_, _)
FirstOccurrences(inp, seen) ==
    IF inp = <<>> THEN seen
    ELSE FirstOccurrences(
            Tail(inp),
            IF IsMessageOrError(Head(inp)) /\ ~Contains(seen, Head(inp).id)
            THEN Append(seen, Head(inp).id) ELSE seen)

ExpectedKeys(inp) ==
    SelectSeq(FirstOccurrences(inp, <<>>), LAMBDA k : ~Killed(inp, k))

\* the client ids under which the returned messages are held, in order
LiveKeys ==
    LET live == SelectSeq(messages_map, LAMBDA e : e.value /= None)
    IN  [i \in 1..Len(live) |-> live[i].key]

\* whether a returned message is the logical message of event e
BuiltFrom(message, e) ==
    /\ message.remote_id = (IF StartsWithBangs(e.id) THEN None ELSE Some(e.id))
    /\ message.server_id = e.stanza_id
    /\ message.from = e.from
    /\ message.timestamp = e.timestamp

----------------------------------------------------------------------------
(* Claims *)

\* the emojis under which an actor stands on a message
ActorEmojis(message, actor) ==
    {message.reactions[i].emoji :
        i \in {n \in DOMAIN message.reactions : Contains(message.reactions[n].from, actor)}}

\* the Reaction events of an actor that target the message with client id k
ReactionsBy(inp, actor, k) ==
    {i \in Targeting(inp, "Reaction", k) : inp[i].from = actor}

SymDiff(A, B) == (A \ B) \cup (B \ A)

\* C1: on every returned message, the emojis under which an actor stands are
\* those of the actor's last Reaction event that targets the message (none
\* when the actor sent no Reaction to it).
C1_ReactionSnapshot ==
    Done =>
        \A j \in DOMAIN result : \A actor \in Actors :
            LET rs == ReactionsBy(input, actor, LiveKeys[j])
            IN  ActorEmojis(result[j], actor)
                    = (IF rs = {} THEN {} ELSE Range(input[Max(rs)].payload.emojis))

\* C1 witness: an actor's later Reaction drops an emoji of the earlier one and
\* keeps the actor on the message, on which another actor reacts as well
C1_Witness ==
    /\ Done
    /\ \E j \in DOMAIN result : \E actor, other \in Actors :
          /\ actor /= other
          /\ ActorEmojis(result[j], actor) /= {}
          /\ ActorEmojis(result[j], other) /= {}
          /\ \E r1, r2 \in ReactionsBy(input, actor, LiveKeys[j]) :
                /\ r1 < r2
                /\ r2 = Max(ReactionsBy(input, actor, LiveKeys[j]))
                /\ Range(input[r1].payload.emojis) \ Range(input[r2].payload.emojis) /= {}

\* C2: the result holds the logical messages (one per client id of the
\* Message/Error events, built from the last event with that id) in the order
\* in which their ids were first inserted, omitting exactly those a
\* Retraction kills; modifiers add no message of their own.
C2_OutputOrder ==
    Done =>
        /\ Len(result) = Len(ExpectedKeys(input))
        /\ LiveKeys = ExpectedKeys(input)
        /\ \A j \in DOMAIN result :
              BuiltFrom(result[j], LastEventWithId(input, ExpectedKeys(input)[j]))

\* C2 witness: an id occurs twice around another id, both messages are
\* returned, and the input holds a modifier as well
C2_Witness ==
    /\ Done
    /\ Len(result) = 2
    /\ ModifierIndices(input) /= {}
    /\ \E i, j, k \in MessageIndices(input) :
          i < j /\ j < k /\ input[i].id = input[k].id /\ input[j].id /= input[i].id

\* modifiers that stand after a Retraction of the message they resolve to
AfterRetraction(inp) ==
    {i \in ModifierIndices(inp) :
        /\ TargetKey(inp, inp[i]) /= None
        /\ \E r \in Targeting(inp, "Retraction", TargetKey(inp, inp[i])[1]) : r < i}

\* every event of a retracted message: its Message/Error events and the
\* modifiers that resolve to it
OfKilled(inp) ==
    {i \in DOMAIN inp :
        \/ i \in MessageIndices(inp) /\ Killed(inp, inp[i].id)
        \/ /\ i \in ModifierIndices(inp)
           /\ TargetKey(inp, inp[i]) /= None
           /\ HasMessage(inp, TargetKey(inp, inp[i])[1])
           /\ Killed(inp, TargetKey(inp, inp[i])[1])}

RECURSIVE Without(_, _, _)
Without(inp, drop, i) ==
    IF i > Len(inp) THEN <<>>
    ELSE (IF i \in drop THEN <<>> ELSE <<inp[i]>>) \o Without(inp, drop, i + 1)

\* C3: a retracted message is absent from the result; the modifiers that
\* follow its Retraction and resolve to it change nothing (the result is that
\* of the input without them), and the retracted message leaves no trace on
\* the other messages (the result is that of the input without all its
\* events); every server id an event carried stays resolvable to the end.
C3_Retraction ==
    Done =>
        /\ \A i \in MessageIndices(input) :
              Killed(input, input[i].id) =>
                  /\ ~Contains(LiveKeys, input[i].id)
                  /\ \A n \in DOMAIN messages_map :
                        messages_map[n].key = input[i].id
                            => messages_map[n].value = None
                  /\ \A j \in DOMAIN result :
                        result[j].remote_id /= Some(input[i].id)
        /\ Len(result) = Len(LiveKeys)
        /\ result = reducing_messages(Without(input, AfterRetraction(input), 1))
        /\ result = reducing_messages(Without(input, OfKilled(input), 1))
        /\ \A i \in MessageIndices(input) :
              input[i].stanza_id /= None =>
                  /\ input[i].stanza_id[1] \in DOMAIN stanza_to_id_map
                  /\ Some(stanza_to_id_map[input[i].stanza_id[1]])
                        = TargetKey(input, [target |-> Some(ServerId(input[i].stanza_id[1]))])

\* C3 witness: a message is retracted, a later modifier addressed by server
\* id resolves to it, and another message is returned
C3_Witness ==
    /\ Done
    /\ result /= <<>>
    /\ \E i \in AfterRetraction(input) :
          /\ input[i].target[1].kind = "ServerId"
          /\ HasMessage(input, TargetKey(input, input[i])[1])
          /\ input[i].payload.kind /= "Retraction"

\* the input with its Message/Error events moved to the front, both groups in
\* their original relative order
MessagesFirst(inp) ==
    SelectSeq(inp, IsMessageOrError) \o SelectSeq(inp, LAMBDA e : ~IsMessageOrError(e))

StanzaIdsOf(inp) == {inp[i].stanza_id[1] : i \in {j \in MessageIndices(inp) : inp[j].stanza_id /= None}}

\* C4: modifiers are applied wherever they stand relative to their target:
\* the result is that of the input with all Message/Error events first; and
\* once the first loop is over, a server id resolves exactly when a
\* Message/Error event carries it, to the client id of the last such event.
C4_TwoPassResolution ==
    /\ Done => result = reducing_messages(MessagesFirst(input))
    /\ (rest = <<>>) =>
          /\ DOMAIN stanza_to_id_map = StanzaIdsOf(input)
          /\ \A s \in StanzaIdsOf(input) :
                Some(stanza_to_id_map[s])
                    = TargetKey(input, [target |-> Some(ServerId(s))])

\* C4 witness: a Correction addressed by server id stands before the Message
\* it targets, and the returned message is edited
C4_Witness ==
    /\ Done
    /\ \E i \in ModifierIndices(input), k \in MessageIndices(input), j \in DOMAIN result :
          /\ i < k
          /\ input[i].payload.kind = "Correction"
          /\ input[i].target = Some(ServerId(S1))
          /\ input[k].stanza_id = Some(S1)
          /\ LiveKeys[j] = input[k].id
          /\ result[j].is_edited

\* C5: a returned message that Corrections target carries the body, mentions
\* and attachments of the last of them in input order.
C5_LastCorrectionWins ==
    Done =>
        \A j \in DOMAIN result :
            LET cs == Targeting(input, "Correction", LiveKeys[j])
            IN  cs /= {} =>
                  LET last == input[Max(cs)].payload
                  IN  /\ result[j].body = [raw |-> last.body.raw, html |-> last.body.html]
                      /\ result[j].mentions = last.body.mentions
                      /\ result[j].attachments = last.attachments

\* C5 witness: two different Corrections target a returned message, with a
\* modifier of another kind between them
C5_Witness ==
    /\ Done
    /\ \E j \in DOMAIN result :
          \E c1, c2 \in Targeting(input, "Correction", LiveKeys[j]) :
              /\ c1 < c2
              /\ input[c1].payload /= input[c2].payload
              /\ \E m \in ModifierIndices(input) :
                    c1 < m /\ m < c2 /\ input[m].payload.kind /= "Correction"

\* C6: a returned message is marked edited exactly when some Correction of
\* the input targets it, by client id or by server id.
C6_EditedIffCorrected ==
    Done =>
        \A j \in DOMAIN result :
            result[j].is_edited <=> Targeting(input, "Correction", LiveKeys[j]) /= {}

\* C6 witness: one returned message is edited through a Correction addressed
\* by server id, another returned message is not edited
C6_Witness ==
    /\ Done
    /\ \E j \in DOMAIN result :
          /\ result[j].is_edited
          /\ \A c \in Targeting(input, "Correction", LiveKeys[j]) :
                input[c].target[1].kind = "ServerId"
    /\ \E j \in DOMAIN result : ~result[j].is_edited

\* the value held under client id k (None when there is none)
ValueAt(map, k) ==
    IF \E i \in DOMAIN map : map[i].key = k
    THEN (CHOOSE e \in Range(map) : e.key = k).value
    ELSE None

\* C7 as stated: after two Reaction events R1, R2 of an actor on a message,
\* the actor's emojis on it are the symmetric difference of R1 and R2.
C7_SymmetricDifference ==
    Done =>
        \A j \in DOMAIN result : \A actor \in Actors :
            LET rs == ReactionsBy(input, actor, LiveKeys[j])
            IN  Cardinality(rs) = 2 =>
                  ActorEmojis(result[j], actor)
                      = SymDiff(Range(input[Min(rs)].payload.emojis),
                                Range(input[Max(rs)].payload.emojis))

\* C7 (amended): a Reaction event replaces the actor's emojis on its target:
\* after the step that applies payload R to a message on which the actor
\* stood under the set B, the actor stands under exactly R, so the emojis on
\* which the actor's membership changed are B XOR R; the other actors'
\* emojis on that message, and all other messages, are as before.
C7_ReactionReplaces ==
    [][ ( /\ pc = "run" /\ rest = <<>> /\ modifiers /= <<>>
          /\ Head(modifiers).payload.kind = "Reaction"
          /\ TargetKey(input, Head(modifiers)) /= None
          /\ ValueAt(messages_map, TargetKey(input, Head(modifiers))[1]) /= None )
        =>
        LET modifier == Head(modifiers)
            k        == TargetKey(input, modifier)[1]
            before   == ValueAt(messages_map, k)[1]
            after    == ValueAt(messages_map', k)
            payload  == Range(modifier.payload.emojis)
        IN  /\ after /= None
            /\ ActorEmojis(after[1], modifier.from) = payload
            /\ SymDiff(ActorEmojis(before, modifier.from),
                       ActorEmojis(after[1], modifier.from))
                  = SymDiff(ActorEmojis(before, modifier.from), payload)
            /\ \A other \in Actors \ {modifier.from} :
                  ActorEmojis(after[1], other) = ActorEmojis(before, other)
            /\ [after[1] EXCEPT !.reactions = <<>>] = [before EXCEPT !.reactions = <<>>]
            /\ \A n \in DOMAIN messages_map :
                  messages_map[n].key /= k => messages_map'[n] = messages_map[n]
      ]_vars

\* C7 witness: an actor sent exactly two Reactions with a common emoji to a
\* returned message, and stands under the second one's emojis
C7_Witness ==
    /\ Done
    /\ \E j \in DOMAIN result : \E actor \in Actors :
          LET rs == ReactionsBy(input, actor, LiveKeys[j])
          IN  /\ Cardinality(rs) = 2
              /\ Range(input[Min(rs)].payload.emojis)
                    \cap Range(input[Max(rs)].payload.emojis) /= {}
              /\ Range(input[Min(rs)].payload.emojis)
                    /= Range(input[Max(rs)].payload.emojis)
              /\ ActorEmojis(result[j], actor) = Range(input[Max(rs)].payload.emojis)

\* a modifier without target, or whose server id no Message/Error event
\* carries, or whose client id no Message/Error event has
Orphan(inp, i) ==
    /\ i \in ModifierIndices(inp)
    /\ \/ inp[i].target = None
       \/ /\ inp[i].target /= None
          /\ inp[i].target[1].kind = "ServerId"
          /\ StanzaCarriers(inp, inp[i].target[1].id) = {}
       \/ /\ inp[i].target /= None
          /\ inp[i].target[1].kind = "RemoteId"
          /\ ~HasMessage(inp, inp[i].target[1].id)

\* C8: an orphan modifier is skipped: the reduction ends, and its result is
\* that of the input without the orphan.
C8_OrphanSkipped ==
    Done =>
        \A i \in DOMAIN input :
            Orphan(input, i) => result = reducing_messages(RemoveAt(input, i))

\* C8 witness: orphans of two kinds stand before a Correction that is applied
C8_Witness ==
    /\ Done
    /\ \E i, j \in DOMAIN input :
          /\ Orphan(input, i) /\ Orphan(input, j)
          /\ input[i].target = None
          /\ input[j].target /= None
          /\ \E c \in ModifierIndices(input) :
                i < c /\ j < c /\ input[c].payload.kind = "Correction"
    /\ \E r \in DOMAIN result : result[r].is_edited

\* C9: no returned message has a remote_id that starts with "!!", and a
\* message held under a generated id has no remote_id at all.
C9_NoSyntheticRemoteId ==
    Done =>
        \A j \in DOMAIN result :
            /\ result[j].remote_id /= None => ~StartsWithBangs(result[j].remote_id[1])
            /\ LiveKeys[j] = IdGenerated => result[j].remote_id = None

\* C9 witness: a message built from an event with a generated id is returned
C9_Witness ==
    /\ Done
    /\ \E j \in DOMAIN result : LiveKeys[j] = IdGenerated /\ result[j].remote_id = None
    /\ \E j \in DOMAIN result : result[j].remote_id /= None

\* the client id an event is about: its own for a Message/Error event, its
\* target's for a modifier
Concern(inp, i) ==
    IF i \in MessageIndices(inp) THEN Some(inp[i].id) ELSE TargetKey(inp, inp[i])

Perms(n) == {p \in [1..n -> 1..n] : \A a, b \in 1..n : p[a] = p[b] => a = b}

\* the input reordered: position a of the result holds event p[a]
Permuted(inp, p) == [a \in 1..Len(inp) |-> inp[p[a]]]

\* events about the same message keep their relative order
KeepsSameTargetOrder(inp, p) ==
    \A a, b \in 1..Len(inp) :
        (/\ p[a] < p[b]
         /\ Concern(inp, p[a]) /= None
         /\ Concern(inp, p[a]) = Concern(inp, p[b])) => a < b

\* the Message/Error events keep their relative order
KeepsMessageOrder(inp, p) ==
    \A a, b \in 1..Len(inp) :
        (p[a] < p[b] /\ p[a] \in MessageIndices(inp) /\ p[b] \in MessageIndices(inp))
            => a < b

\* C10 as stated: every reordering that keeps the order of the events about
\* the same message reduces to the same messages.
C10_StableUnderSameTargetOrder ==
    Done =>
        \A p \in Perms(Len(input)) :
            KeepsSameTargetOrder(input, p)
                => reducing_messages(Permuted(input, p)) = result

\* C10 (amended): every reordering that keeps the order of the Message/Error
\* events among themselves and of the events about the same message reduces
\* to the same list of messages.
C10_Stable ==
    Done =>
        \A p \in Perms(Len(input)) :
            (KeepsMessageOrder(input, p) /\ KeepsSameTargetOrder(input, p))
                => reducing_messages(Permuted(input, p)) = result

\* C10 witness: an input with a reordering, other than itself, that keeps
\* both orders and moves a modifier that is applied
C10_Witness ==
    /\ Done
    /\ \E r \in DOMAIN result : result[r].is_edited
    /\ \E p \in Perms(Len(input)) :
          /\ Permuted(input, p) /= input
          /\ KeepsMessageOrder(input, p)
          /\ KeepsSameTargetOrder(input, p)
          /\ \E a \in 1..Len(input) :
                p[a] /= a /\ input[p[a]].payload.kind = "Correction"

----------------------------------------------------------------------------
(* Receipts *)

IsReceipt(e) == e.payload.kind \in {"DeliveryReceipt", "ReadReceipt"}

\* the input with a copy of event e put after position j
InsertAfter(inp, j, e) == SubSeq(inp, 1, j) \o <<e>> \o SubSeq(inp, j + 1, Len(inp))

\* a flag that is set on a held message is still set after the step, as long
\* as the message is held
FlagsKept ==
    \A n \in DOMAIN messages_map :
        (messages_map[n].value /= None /\ messages_map'[n].value /= None) =>
            /\ messages_map[n].value[1].is_read => messages_map'[n].value[1].is_read
            /\ messages_map[n].value[1].is_delivered
                  => messages_map'[n].value[1].is_delivered

\* what the receipts of the input say about the returned messages
ReceiptsReduced ==
    Done =>
        /\ \A i \in DOMAIN input : \A j \in 0..Len(input) :
              IsReceipt(input[i])
                  => reducing_messages(InsertAfter(input, j, input[i])) = result
        /\ \A r \in DOMAIN result :
              /\ result[r].is_delivered
                    <=> Targeting(input, "DeliveryReceipt", LiveKeys[r]) /= {}
              /\ result[r].is_read
                    <=> Targeting(input, "ReadReceipt", LiveKeys[r]) /= {}

\* C11: a receipt given twice reduces to what it reduces to given once; a
\* returned message is delivered (read) exactly when a DeliveryReceipt
\* (ReadReceipt) of the input targets it, whatever follows the receipt, and
\* no step of the reducer clears a flag that is set.
C11_ReceiptsIdempotentMonotonic == []ReceiptsReduced /\ [][FlagsKept]_vars

\* C11 witness: a receipt occurs twice, its message is returned with the flag
\* set, after a later Correction of that message
C11_Witness ==
    /\ Done
    /\ \E i, j, c \in DOMAIN input :
          /\ i < j /\ j < c
          /\ input[i] = input[j]
          /\ input[i].payload.kind = "ReadReceipt"
          /\ input[c].payload.kind = "Correction"
          /\ TargetKey(input, input[c]) = TargetKey(input, input[i])
          /\ \E r \in DOMAIN result :
                /\ Some(LiveKeys[r]) = TargetKey(input, input[i])
                /\ result[r].is_read /\ result[r].is_edited

----------------------------------------------------------------------------
(* Part 2: the per-room service, Room (app/services/room.rs): send_message,
   update_message, toggle_reaction_to_message, retract_message, mark_as_read.
   An operation in flight is a frame of `calls`; every await of the code ends
   a step, so that operations interleave where the executor lets them. *)

\* ctx.connected_account() / ctx.connected_id()
ConnectedAccount == "a"

\* the sender of show_system_message's rows
ProseBot == "prose-bot@prose.org"

\* a MessageLike with the timestamp the caller read off the clock
MessageLikeAt(id, stanza_id, target, from, timestamp, payload) ==
    [MessageLike(id, stanza_id, target, from, payload) EXCEPT !.timestamp = timestamp]

Digits == <<"1", "2", "3", "4", "5", "6", "7", "8", "9">>

\* id_provider.new_id(): the n-th id handed out
new_id(n) == <<"n", Digits[n]>>

\* Message::toggle_reaction's first loop: position of the first reaction
\* with the emoji (0: none)
FindReaction(reactions, emoji) ==
    IF \E i \in DOMAIN reactions : reactions[i].emoji = emoji
    THEN Min({i \in DOMAIN reactions : reactions[i].emoji = emoji})
    ELSE 0

\* Iterator::position (0: none)
Position(s, x) == IF Contains(s, x) THEN Min({i \in DOMAIN s : s[i] = x}) ELSE 0

\* Message::toggle_reaction (message.rs 51-69)
toggle_reaction(message, user_id, emoji) ==
    LET i == FindReaction(message.reactions, emoji)
    IN  IF i = 0
        THEN [message EXCEPT
                !.reactions = Append(@, [emoji |-> emoji, from |-> <<user_id>>])]
        ELSE LET idx == Position(message.reactions[i].from, user_id)
             IN  IF idx > 0
                 THEN [message EXCEPT !.reactions[i].from = RemoveAt(@, idx)]
                 ELSE [message EXCEPT !.reactions[i].from = Append(@, user_id)]

\* Message::reactions_from (message.rs 71-79), collected
reactions_from(message, user_id) ==
    LET mine == SelectSeq(message.reactions, LAMBDA r : Contains(r.from, user_id))
    IN  [i \in 1..Len(mine) |-> mine[i].emoji]

(* MessagesRepository (domain/messaging/repos/messages_repository.rs): the
   trait is in the source, its implementations are not; the queries follow the
   trait's documentation *)

\* "Sorted chronologically": by timestamp, rows of one timestamp as appended
RECURSIVE Chronological(_)
Chronological(rows) ==
    IF rows = <<>> THEN <<>>
    ELSE LET t == Min({rows[i].timestamp : i \in DOMAIN rows})
             i == Min({n \in DOMAIN rows : rows[n].timestamp = t})
         IN  <<rows[i]>> \o Chronological(RemoveAt(rows, i))

\* whether a row is a part of the message with client id `id`, whose Message
\* rows carry the server ids `stanza_ids`
IsPartOf(row, id, stanza_ids) ==
    \/ IsMessageOrError(row) /\ row.id = id
    \/ /\ row.target /= None
       /\ \/ row.target[1] = RemoteId(id)
          \/ row.target[1].kind = "ServerId" /\ row.target[1].id \in stanza_ids

\* MessagesRepository::get: "all parts (MessageLike) that make up message
\* with `id`. Sorted chronologically."
MessagesRepository_get(repo, id) ==
    LET stanza_ids ==
            {repo[i].stanza_id[1] :
                i \in {n \in DOMAIN repo :
                         /\ IsMessageOrError(repo[n])
                         /\ repo[n].id = id
                         /\ repo[n].stanza_id /= None}}
    IN  Chronological(SelectSeq(repo, LAMBDA row : IsPartOf(row, id, stanza_ids)))

\* struct MessageRef
MessageRef(row) == [id |-> row.id, timestamp |-> row.timestamp]

\* MessagesRepository::get_last_message: "the latest message, if available,
\* that has an `id` set"
MessagesRepository_get_last_message(repo) ==
    LET rows == SelectSeq(Chronological(repo),
                    LAMBDA row : IsMessageOrError(row) /\ ~StartsWithBangs(row.id))
    IN  IF rows = <<>> THEN None ELSE Some(MessageRef(rows[Len(rows)]))

(* Requests and events *)

\* struct SendMessageRequest of the dtos, as send_message reads it (185-213)
SendMessageRequestDTO(body, attachments) == [body |-> body, attachments |-> attachments]

RequestBody(text) == [text |-> text, mentions |-> <<>>]

\* SendMessageRequest::is_empty (dtos; not in the source tree): no text and
\* no attachment
request_is_empty(request) ==
    /\ request.body = None \/ request.body[1].text = ""
    /\ request.attachments = <<>>

\* ClientRoomEventType::MessagesAppended / MessagesUpdated, as dispatched
\* by dispatch_room_event
ClientRoomEvent(type, message_ids) ==
    [event |-> "RoomEvent", type |-> type, message_ids |-> message_ids]

\* ClientEvent::SidebarChanged
SidebarChanged == [event |-> "SidebarChanged"]

(* Room operations *)

\* Most Room operations a behaviour starts
MaxCalls == 2

CallIds == 1..MaxCalls

IdleFrame ==
    [op |-> "none", pc |-> "idle", ret |-> "Pending", appended |-> <<>>, emitted |-> <<>>]

\* a frame that is free; frames are taken in order
CanStart(c) ==
    /\ calls[c].pc = "idle"
    /\ c > 1 => calls[c - 1].pc /= "idle"

\* the operation returns `ret`
Returned(frame, ret) == [frame EXCEPT !.pc = "done", !.ret = ret]

\* encrypt_message_if_needed (735-781): what it may return for a request;
\* `id` is what id_provider.new_id() hands out next
encrypt_message_if_needed(request, id) ==
    IF request.body = None
    THEN {[ok |-> TRUE,
           request |-> [id |-> id, body |-> None, attachments |-> request.attachments]]}
    ELSE IF /\ data.type \in {"DirectMessage", "Group", "PrivateChannel"}
            /\ data.settings.encryption_enabled
    THEN {[ok |-> FALSE],
          [ok |-> TRUE,
           request |->
               [id |-> id,
                body |-> Some([payload |-> [kind |-> "Encrypted",
                                            text |-> request.body[1].text],
                               mentions |-> request.body[1].mentions]),
                attachments |-> request.attachments]]}
    ELSE {[ok |-> TRUE,
           request |->
               [id |-> id,
                body |-> Some([payload |-> [kind |-> "Plaintext",
                                            text |-> request.body[1].text],
                               mentions |-> request.body[1].mentions]),
                attachments |-> request.attachments]]}

\* the text and mentions the unencrypted payload is built from (199-213, 259-272)
PayloadBody(request) ==
    IF request.body = None THEN MessageLikeBody("", <<>>)
    ELSE MessageLikeBody(request.body[1].text, request.body[1].mentions)

\* send_message up to the first call that leaves the Room (179-216)
send_message(c, request) ==
    /\ CanStart(c)
    /\ LET frame == [op |-> "send_message", pc |-> "idle", ret |-> "Pending",
                     dto |-> request, appended |-> <<>>, emitted |-> <<>>]
       IN  IF request_is_empty(request)
           THEN /\ calls' = [calls EXCEPT ![c] = Returned(frame, "Ok")]
                /\ UNCHANGED id_provider
           ELSE IF /\ request.body /= None
                   /\ request.body[1].text \in {"/omemo enable", "/omemo disable"}
           THEN /\ calls' = [calls EXCEPT ![c] =
                        [op |-> "send_message", pc |-> "update_settings",
                         ret |-> "Pending", dto |-> request,
                         handler |-> "set_encryption_enabled",
                         enabled |-> request.body[1].text = "/omemo enable",
                         updated_settings |-> None,
                         updated_message_ids |-> <<>>,
                         appended |-> <<>>, emitted |-> <<>>]]
                /\ UNCHANGED id_provider
           ELSE \E out \in encrypt_message_if_needed(request, new_id(id_provider + 1)) :
                    IF out.ok
                    THEN /\ calls' = [calls EXCEPT ![c] =
                                [op |-> "send_message", pc |-> "append",
                                 ret |-> "Pending", dto |-> request,
                                 request |-> out.request, target |-> None,
                                 payload |->
                                     [PayloadMessage("", request.attachments)
                                         EXCEPT !.body = PayloadBody(request)],
                                 appended |-> <<>>, emitted |-> <<>>]]
                         /\ id_provider' = id_provider + 1
                    ELSE /\ calls' = [calls EXCEPT ![c] = Returned(frame, "Err")]
                         /\ UNCHANGED id_provider
    /\ UNCHANGED <<data, message_repo, dispatched, wire, saved_settings, time_provider>>
    /\ UNCHANGED <<reducer_vars, history_vars, encryption_vars, client_vars>>

\* update_message up to the first call that leaves the Room (249-275)
update_message(c, id, request) ==
    /\ CanStart(c)
    /\ LET frame == [op |-> "update_message", pc |-> "idle", ret |-> "Pending",
                     dto |-> request, id |-> id, appended |-> <<>>, emitted |-> <<>>]
       IN  IF request_is_empty(request)
           THEN /\ calls' = [calls EXCEPT ![c] = Returned(frame, "Ok")]
                /\ UNCHANGED id_provider
           ELSE \E out \in encrypt_message_if_needed(request, new_id(id_provider + 1)) :
                    IF out.ok
                    THEN /\ calls' = [calls EXCEPT ![c] =
                                [op |-> "update_message", pc |-> "append",
                                 ret |-> "Pending", dto |-> request, id |-> id,
                                 request |-> out.request,
                                 target |-> Some(RemoteId(id)),
                                 payload |->
                                     [PayloadCorrection("", <<>>, request.attachments)
                                         EXCEPT !.body = PayloadBody(request)],
                                 appended |-> <<>>, emitted |-> <<>>]]
                         /\ id_provider' = id_provider + 1
                    ELSE /\ calls' = [calls EXCEPT ![c] = Returned(frame, "Err")]
                         /\ UNCHANGED id_provider
    /\ UNCHANGED <<data, message_repo, dispatched, wire, saved_settings, time_provider>>
    /\ UNCHANGED <<reducer_vars, history_vars, encryption_vars, client_vars>>

\* the row send_message (223-231) and update_message (282-290) save
LocalEcho(frame, now) ==
    MessageLikeAt(MessageLikeId_new(Some(frame.request.id), <<"u">>), None,
                  frame.target, ConnectedAccount, now, frame.payload)

\* mutant: the MessagingService call is made without the message being saved
append_local_echo_Unsaved(c) ==
    /\ calls[c].pc = "append"
    /\ calls' = [calls EXCEPT ![c].pc = "sent"]
    /\ wire' = Append(wire,
            IF calls[c].op = "send_message"
            THEN [dir |-> "call", by |-> c, call |-> "send_message",
                  request |-> calls[c].request]
            ELSE [dir |-> "call", by |-> c, call |-> "update_message",
                  message_id |-> calls[c].id, request |-> calls[c].request])
    /\ time_provider' = time_provider + 1
    /\ UNCHANGED <<data, message_repo, dispatched, saved_settings, id_provider>>
    /\ UNCHANGED <<reducer_vars, history_vars, encryption_vars, client_vars>>

\* message_repo.append of the unencrypted message returns and the
\* MessagingService call is made (219-237, 278-296)
append_local_echo(c) ==
    /\ calls[c].pc = "append"
    /\ LET row == LocalEcho(calls[c], time_provider)
       IN  /\ message_repo' = Append(message_repo, row)
           /\ calls' = [calls EXCEPT ![c].pc = "sent", ![c].appended = Append(@, row)]
    /\ wire' = Append(wire,
            IF calls[c].op = "send_message"
            THEN [dir |-> "call", by |-> c, call |-> "send_message",
                  request |-> calls[c].request]
            ELSE [dir |-> "call", by |-> c, call |-> "update_message",
                  message_id |-> calls[c].id, request |-> calls[c].request])
    /\ time_provider' = time_provider + 1
    /\ UNCHANGED <<data, dispatched, saved_settings, id_provider>>
    /\ UNCHANGED <<reducer_vars, history_vars, encryption_vars, client_vars>>

\* mutant: update_message reports the id of the correction it sent (the
\* local `message_id`) instead of the id of the corrected message
EventOf_CorrectionId(frame) ==
    IF frame.op = "send_message"
    THEN ClientRoomEvent("MessagesAppended", <<frame.request.id>>)
    ELSE ClientRoomEvent("MessagesUpdated", <<frame.request.id>>)

\* what the operation dispatches once the wire call succeeded (239-244, 298-303)
EventOf(frame) ==
    IF frame.op = "send_message"
    THEN ClientRoomEvent("MessagesAppended", <<frame.request.id>>)
    ELSE ClientRoomEvent("MessagesUpdated", <<frame.id>>)

\* mutant: the wire call's error is dropped (no `?`), the event goes out anyway
messaging_service_returns_IgnoringError(c, ok) ==
    /\ calls[c].pc = "sent"
    /\ wire' = Append(wire, [dir |-> "return", by |-> c, ok |-> ok])
    /\ IF calls[c].op \in {"send_message", "update_message"}
       THEN /\ dispatched' = Append(dispatched, EventOf(calls[c]))
            /\ calls' = [calls EXCEPT
                            ![c] = [Returned(@, "Ok") EXCEPT
                                       !.emitted = Append(@, EventOf(calls[c]))]]
       ELSE /\ calls' = [calls EXCEPT ![c] = Returned(@, IF ok THEN "Ok" ELSE "Err")]
            /\ UNCHANGED dispatched
    /\ UNCHANGED <<data, message_repo, saved_settings, id_provider, time_provider>>
    /\ UNCHANGED <<reducer_vars, history_vars, encryption_vars, client_vars>>

\* The awaited MessagingService call returns: `?` hands an error to the
\* caller; send_message and update_message dispatch their event after a
\* success (237-246, 296-305); toggle_reaction_to_message and retract_message
\* return what the call returned (328-339, 344-346)
messaging_service_returns(c, ok) ==
    /\ calls[c].pc = "sent"
    /\ wire' = Append(wire, [dir |-> "return", by |-> c, ok |-> ok])
    /\ IF ok /\ calls[c].op \in {"send_message", "update_message"}
       THEN /\ dispatched' = Append(dispatched, EventOf(calls[c]))
            /\ calls' = [calls EXCEPT
                            ![c] = [Returned(@, "Ok") EXCEPT
                                       !.emitted = Append(@, EventOf(calls[c]))]]
       ELSE /\ calls' = [calls EXCEPT ![c] = Returned(@, IF ok THEN "Ok" ELSE "Err")]
            /\ UNCHANGED dispatched
    /\ UNCHANGED <<data, message_repo, saved_settings, id_provider, time_provider>>
    /\ UNCHANGED <<reducer_vars, history_vars, encryption_vars, client_vars>>

\* toggle_reaction_to_message up to the wire call (308-340)
toggle_reaction_to_message(c, id, emoji) ==
    /\ CanStart(c)
    /\ LET frame    == [op |-> "toggle_reaction_to_message", pc |-> "idle",
                        ret |-> "Pending", id |-> id, emoji |-> emoji,
                        appended |-> <<>>, emitted |-> <<>>]
           messages == MessagesRepository_get(message_repo, id)
           reduced  == reducing_messages(messages)
       IN  IF reduced = <<>>
           THEN /\ calls' = [calls EXCEPT ![c] = Returned(frame, "Err")]
                /\ UNCHANGED wire
           ELSE LET message    == toggle_reaction(reduced[Len(reduced)],
                                                  ConnectedAccount, emoji)
                    all_emojis == reactions_from(message, ConnectedAccount)
                IN  IF data.room_id.kind = "User"
                    THEN /\ wire' = Append(wire,
                                [dir |-> "call", by |-> c,
                                 call |-> "react_to_chat_message",
                                 message_id |-> id, emojis |-> all_emojis])
                         /\ calls' = [calls EXCEPT ![c] = [frame EXCEPT !.pc = "sent"]]
                    ELSE IF message.server_id = None
                    THEN /\ calls' = [calls EXCEPT ![c] = Returned(frame, "Err")]
                         /\ UNCHANGED wire
                    ELSE /\ wire' = Append(wire,
                                [dir |-> "call", by |-> c,
                                 call |-> "react_to_muc_message",
                                 stanza_id |-> message.server_id[1],
                                 emojis |-> all_emojis])
                         /\ calls' = [calls EXCEPT ![c] = [frame EXCEPT !.pc = "sent"]]
    /\ UNCHANGED <<data, message_repo, dispatched, saved_settings, id_provider,
                   time_provider>>
    /\ UNCHANGED <<reducer_vars, history_vars, encryption_vars, client_vars>>

\* retract_message up to the wire call (343-347)
retract_message(c, id) ==
    /\ CanStart(c)
    /\ wire' = Append(wire, [dir |-> "call", by |-> c, call |-> "retract_message",
                             message_id |-> id])
    /\ calls' = [calls EXCEPT ![c] =
            [op |-> "retract_message", pc |-> "sent", ret |-> "Pending", id |-> id,
             appended |-> <<>>, emitted |-> <<>>]]
    /\ UNCHANGED <<data, message_repo, dispatched, saved_settings, id_provider,
                   time_provider>>
    /\ UNCHANGED <<reducer_vars, history_vars, encryption_vars, client_vars>>

\* mark_as_read up to the settings update (412-421)
mark_as_read(c) ==
    /\ CanStart(c)
    /\ LET frame       == [op |-> "mark_as_read", pc |-> "idle", ret |-> "Pending",
                           appended |-> <<>>, emitted |-> <<>>]
           message_ref == MessagesRepository_get_last_message(message_repo)
       IN  IF message_ref = None
           THEN calls' = [calls EXCEPT ![c] = Returned(frame, "Ok")]
           ELSE calls' = [calls EXCEPT ![c] =
                    [op |-> "mark_as_read", pc |-> "update_settings",
                     ret |-> "Pending", handler |-> "mark_as_read",
                     message_ref |-> message_ref[1],
                     updated_settings |-> None,
                     updated_message_ids |-> <<>>,
                     appended |-> <<>>, emitted |-> <<>>]]
    /\ UNCHANGED <<data, message_repo, dispatched, wire, saved_settings, id_provider,
                   time_provider>>
    /\ UNCHANGED <<reducer_vars, history_vars, encryption_vars, client_vars>>

\* mutant: the closure does not compare before it writes
mark_as_read_handler_NoCheck(settings, message_ref) ==
    [settings |-> [settings EXCEPT !.last_read_message = Some(message_ref)],
     updated_message_ids |->
        (IF settings.last_read_message /= None
         THEN <<settings.last_read_message[1].id>> ELSE <<>>) \o <<message_ref.id>>]

\* the closure mark_as_read hands to update_synced_settings (423-433): the
\* settings it leaves and the ids it pushed
mark_as_read_handler(settings, message_ref) ==
    IF settings.last_read_message = Some(message_ref)
    THEN [settings |-> settings, updated_message_ids |-> <<>>]
    ELSE [settings |-> [settings EXCEPT !.last_read_message = Some(message_ref)],
          updated_message_ids |->
             (IF settings.last_read_message /= None
              THEN <<settings.last_read_message[1].id>> ELSE <<>>)
                 \o <<message_ref.id>>]

\* What follows update_synced_settings: mark_as_read returns when no id was
\* pushed, else flags the statistics and dispatches SidebarChanged (436-444);
\* send_message goes on to show_system_message (188, 193)
AfterSettings(frame, updated_message_ids) ==
    IF frame.handler = "mark_as_read"
    THEN IF updated_message_ids = <<>>
         THEN [frame |-> Returned(frame, "Ok"), events |-> <<>>, statistics |-> FALSE]
         ELSE [frame |-> [Returned(frame, "Ok") EXCEPT
                             !.emitted = Append(@, SidebarChanged)],
               events |-> <<SidebarChanged>>, statistics |-> TRUE]
    ELSE IF frame.op = "set_encryption_enabled"
    THEN [frame |-> Returned(frame, "Ok"), events |-> <<>>, statistics |-> FALSE]
    ELSE [frame |-> [frame EXCEPT !.pc = "system_message"],
          events |-> <<>>, statistics |-> FALSE]

\* update_synced_settings, the block that holds settings_mut() (783-795): the
\* closure runs on a clone, which is stored when it differs
update_synced_settings(c) ==
    /\ calls[c].pc = "update_settings"
    /\ LET settings == data.settings
           handled  ==
               IF calls[c].handler = "mark_as_read"
               THEN mark_as_read_handler(settings, calls[c].message_ref)
               ELSE [settings |-> [settings EXCEPT
                                      !.encryption_enabled = calls[c].enabled],
                     updated_message_ids |-> <<>>]
       IN  IF handled.settings = settings
           THEN LET after == AfterSettings(calls[c], handled.updated_message_ids)
                IN  /\ data' = [data EXCEPT
                                  !.needs_update_statistics = @ \/ after.statistics]
                    /\ dispatched' = dispatched \o after.events
                    /\ calls' = [calls EXCEPT ![c] = after.frame]
           ELSE /\ data' = [data EXCEPT !.settings = handled.settings]
                /\ calls' = [calls EXCEPT
                                ![c].pc = "save_settings",
                                ![c].updated_settings = Some(handled.settings),
                                ![c].updated_message_ids =
                                    handled.updated_message_ids]
                /\ UNCHANGED dispatched
    /\ UNCHANGED <<message_repo, wire, saved_settings, id_provider, time_provider>>
    /\ UNCHANGED <<reducer_vars, history_vars, encryption_vars, client_vars>>

\* update_synced_settings, the save outside the lock (797-806): an error is
\* logged, the operation goes on
save_settings(c, ok) ==
    /\ calls[c].pc = "save_settings"
    /\ saved_settings' =
            Append(saved_settings, [settings |-> calls[c].updated_settings[1], ok |-> ok])
    /\ LET after == AfterSettings(calls[c], calls[c].updated_message_ids)
       IN  /\ data' = [data EXCEPT !.needs_update_statistics = @ \/ after.statistics]
           /\ dispatched' = dispatched \o after.events
           /\ calls' = [calls EXCEPT ![c] = after.frame]
    /\ UNCHANGED <<message_repo, wire, id_provider, time_provider>>
    /\ UNCHANGED <<reducer_vars, history_vars, encryption_vars, client_vars>>

\* show_system_message (700-733): a transient row by the bot, and its event
show_system_message(c) ==
    /\ calls[c].pc = "system_message"
    /\ LET id  == MessageLikeId_new(Some(new_id(id_provider + 1)), <<"u">>)
           row == MessageLikeAt(id, None, None, ProseBot, time_provider,
                      [PayloadMessage("S", <<>>) EXCEPT !.is_transient = TRUE])
           event == ClientRoomEvent("MessagesAppended", <<id>>)
       IN  /\ message_repo' = Append(message_repo, row)
           /\ dispatched' = Append(dispatched, event)
           /\ calls' = [calls EXCEPT
                           ![c] = [Returned(@, "Ok") EXCEPT
                                      !.appended = Append(@, row),
                                      !.emitted = Append(@, event)]]
    /\ id_provider' = id_provider + 1
    /\ time_provider' = time_provider + 1
    /\ UNCHANGED <<data, wire, saved_settings>>
    /\ UNCHANGED <<reducer_vars, history_vars, encryption_vars, client_vars>>

(* The rooms, repositories and requests the operations are run on *)

\* a direct chat and a public channel (a MUC room, never encrypted)
Rooms ==
    { [room_id |-> [kind |-> "User"], type |-> "DirectMessage"],
      [room_id |-> [kind |-> "Muc"], type |-> "PublicChannel"] }

\* struct SyncedRoomSettings
SyncedRoomSettings(last_read_message, encryption_enabled) ==
    [last_read_message |-> last_read_message, encryption_enabled |-> encryption_enabled]

\* a repository with one message, which carries a server id
OneMessage ==
    << MessageLikeAt(Id1, Some(S1), None, "b", 1, PayloadMessage("A", <<>>)) >>

\* the clock starts after the rows the repository holds
FirstNow == 4

Requests ==
    { SendMessageRequestDTO(None, <<>>),
      SendMessageRequestDTO(Some(RequestBody("hi")), <<"f0">>),
      SendMessageRequestDTO(Some(RequestBody("/omemo enable")), <<>>),
      SendMessageRequestDTO(Some(RequestBody("/omemo disable")), <<>>) }

UpdateRequests ==
    { SendMessageRequestDTO(None, <<>>),
      SendMessageRequestDTO(Some(RequestBody("hi")), <<"f0">>) }

\* the reducer is not running on its own
ReducerAbsent ==
    /\ input = <<>>
    /\ pc = "idle"
    /\ rest = <<>>
    /\ messages_map = <<>>
    /\ stanza_to_id_map = <<>>
    /\ modifiers = <<>>
    /\ result = <<>>

\* a Room of one of `rooms` over one of `repositories`, nothing in flight
InitRoomOn(rooms, repositories) ==
    /\ ReducerAbsent
    /\ ClientAbsent
    /\ \E room \in rooms : \E encryption_enabled \in BOOLEAN :
          data = [room_id |-> room.room_id, type |-> room.type,
                  settings |-> SyncedRoomSettings(None, encryption_enabled),
                  needs_update_statistics |-> FALSE]
    /\ message_repo \in repositories
    /\ dispatched = <<>>
    /\ wire = <<>>
    /\ saved_settings = <<>>
    /\ calls = [c \in CallIds |-> IdleFrame]
    /\ id_provider = 0
    /\ time_provider = FirstNow
    /\ HistoryAbsent
    /\ EncryptionAbsent

InitRoom == InitRoomOn(Rooms, {OneMessage})

\* the mutating operations, with the steps that complete them
NextRoom ==
    \E c \in CallIds :
        \/ \E request \in Requests : send_message(c, request)
        \/ \E request \in UpdateRequests : update_message(c, Id1, request)
        \/ append_local_echo(c)
        \/ \E ok \in BOOLEAN : messaging_service_returns(c, ok)
        \/ toggle_reaction_to_message(c, Id1, "x")
        \/ retract_message(c, Id1)
        \/ update_synced_settings(c)
        \/ \E ok \in BOOLEAN : save_settings(c, ok)
        \/ show_system_message(c)

SpecRoom == InitRoom /\ [][NextRoom]_vars

(* mark_as_read, on its own *)

\* a repository with two messages
TwoMessages ==
    OneMessage \o << MessageLikeAt(Id2, Some(S2), None, "b", 2, PayloadMessage("B", <<>>)) >>

\* a Room whose synced settings may already name a message as read
InitMark ==
    /\ ReducerAbsent
    /\ ClientAbsent
    /\ message_repo \in {<<>>, OneMessage, TwoMessages}
    /\ \E room \in Rooms :
       \E last_read_message \in
             {None} \cup {Some(MessageRef(message_repo[i])) : i \in DOMAIN message_repo} :
          data = [room_id |-> room.room_id, type |-> room.type,
                  settings |-> SyncedRoomSettings(last_read_message, FALSE),
                  needs_update_statistics |-> FALSE]
    /\ dispatched = <<>>
    /\ wire = <<>>
    /\ saved_settings = <<>>
    /\ calls = [c \in CallIds |-> IdleFrame]
    /\ id_provider = 0
    /\ time_provider = FirstNow
    /\ HistoryAbsent
    /\ EncryptionAbsent

\* mark_as_read, beside sends that add rows to the repository
NextMark ==
    \E c \in CallIds :
        \/ mark_as_read(c)
        \/ update_synced_settings(c)
        \/ \E ok \in BOOLEAN : save_settings(c, ok)
        \/ send_message(c, SendMessageRequestDTO(Some(RequestBody("hi")), <<>>))
        \/ append_local_echo(c)
        \/ \E ok \in BOOLEAN : messaging_service_returns(c, ok)

SpecMark == InitMark /\ [][NextMark]_vars

(* toggle_reaction_to_message, on its own *)

\* Most Reaction rows the repository holds for the message at the start
MaxReactionRows == 2

\* what a Reaction row carries: the account's own reactions (one of them with
\* an emoji twice in its list, one taking every emoji back) and a peer's
ToggleReactions ==
    { [from |-> "a", emojis |-> <<"x">>],
      [from |-> "a", emojis |-> <<"x", "y">>],
      [from |-> "a", emojis |-> <<"x", "x">>],
      [from |-> "a", emojis |-> <<>>],
      [from |-> "b", emojis |-> <<"x">>] }

ReactionRow(reaction, timestamp) ==
    MessageLikeAt(IdGenerated, None, Some(RemoteId(Id1)), reaction.from, timestamp,
                  PayloadReaction(reaction.emojis))

\* the message with and without a server id, followed by Reaction rows
ToggleRepositories ==
    { <<MessageLikeAt(Id1, stanza_id, None, "b", 1, PayloadMessage("A", <<>>))>>
        \o [i \in DOMAIN reactions |-> ReactionRow(reactions[i], i + 1)] :
        stanza_id \in {None, Some(S1)},
        reactions \in SeqsUpTo(ToggleReactions, MaxReactionRows) }

InitToggle == InitRoomOn(Rooms, ToggleRepositories)

NextToggle ==
    \E c \in CallIds :
        \/ \E emoji \in {"x", "y"} : toggle_reaction_to_message(c, Id1, emoji)
        \/ \E ok \in BOOLEAN : messaging_service_returns(c, ok)

SpecToggle == InitToggle /\ [][NextToggle]_vars

----------------------------------------------------------------------------
(* History loading (Room::load_messages, room.rs 458-580) *)

\* Iterator::rev
Reversed(s) == [i \in 1..Len(s) |-> s[Len(s) + 1 - i]]

\* a message stanza, as far as parsing reads it: the id attribute and the
\* error, reactions and body elements; no fastening, no replace element, no
\* markers and no attachments unless they are put in
Stanza(id, from, error, reactions, body) ==
    [id |-> id, from |-> from, error |-> error, reactions |-> reactions, body |-> body,
     fastening |-> None, replace |-> None, received_marker |-> None,
     displayed_marker |-> None, oob_attachments |-> <<>>]

\* mam::ArchivedMessage: the archive's id and the forwarded stanza with its delay
ArchivedMessage(id, stamp, stanza) ==
    [id |-> id, forwarded |-> [delay |-> stamp, stanza |-> stanza]]

\* the payload of an error stanza: MessageLikePayload::Error, the variant that
\* Room::load_messages, parse_message_page and the reducer match on
\* (room.rs 510, message_archive_domain_service.rs 178, message.rs 125). The
\* Payload type of message_like.rs has no such variant and is_error is not
\* defined there: its try_from builds a Message payload from the same text.
StanzaErrorPayload(error) == PayloadError(error)

\* Attachment::try_from(OOB): an attachment is made of the url, when there is
\* one
Attachment_try_from(oob) ==
    IF oob = "" THEN [ok |-> FALSE, error |-> "Other"] ELSE [ok |-> TRUE, attachment |-> oob]

\* oob_attachments().iter().cloned().map(TryFrom::try_from)
\* .collect::<Result<Vec<_>, _>>() (269-273, 296-300)
collect_attachments(oobs) ==
    IF \E i \in DOMAIN oobs : ~Attachment_try_from(oobs[i]).ok
    THEN [ok |-> FALSE, error |-> "Other"]
    ELSE [ok |-> TRUE,
          attachments |-> [i \in DOMAIN oobs |-> Attachment_try_from(oobs[i]).attachment]]

\* mutant: a body makes a message, whatever markers the stanza has
TargetedPayload_try_from_BodyFirst(message) ==
    LET attachments == collect_attachments(message.oob_attachments)
    IN  IF message.error /= None
        THEN [ok |-> TRUE, target |-> None, payload |-> StanzaErrorPayload(message.error[1])]
        ELSE IF message.reactions /= None
        THEN [ok |-> TRUE, target |-> Some(message.reactions[1].id),
              payload |-> PayloadReaction(message.reactions[1].reactions)]
        ELSE IF message.fastening /= None /\ message.fastening[1].retract
        THEN [ok |-> TRUE, target |-> Some(message.fastening[1].id),
              payload |-> PayloadRetraction]
        ELSE IF message.replace /= None /\ message.body /= None
        THEN IF ~attachments.ok THEN attachments
             ELSE [ok |-> TRUE, target |-> Some(message.replace[1]),
                   payload |-> PayloadCorrection(message.body[1], <<>>,
                                                 attachments.attachments)]
        ELSE IF message.body /= None
        THEN IF ~attachments.ok THEN attachments
             ELSE [ok |-> TRUE, target |-> None,
                   payload |-> PayloadMessage(message.body[1], attachments.attachments)]
        ELSE IF message.received_marker /= None
        THEN [ok |-> TRUE, target |-> Some(message.received_marker[1].id),
              payload |-> PayloadDeliveryReceipt]
        ELSE IF message.displayed_marker /= None
        THEN [ok |-> TRUE, target |-> Some(message.displayed_marker[1].id),
              payload |-> PayloadReadReceipt]
        ELSE [ok |-> FALSE, error |-> "NoPayload"]

\* TargetedPayload::try_from (message_like.rs 230-309); the first match wins
TargetedPayload_try_from(message) ==
    LET attachments == collect_attachments(message.oob_attachments)
    IN  IF message.error /= None
        THEN [ok |-> TRUE, target |-> None, payload |-> StanzaErrorPayload(message.error[1])]
        ELSE IF message.reactions /= None
        THEN [ok |-> TRUE, target |-> Some(message.reactions[1].id),
              payload |-> PayloadReaction(message.reactions[1].reactions)]
        ELSE IF message.fastening /= None /\ message.fastening[1].retract
        THEN [ok |-> TRUE, target |-> Some(message.fastening[1].id),
              payload |-> PayloadRetraction]
        ELSE IF message.replace /= None /\ message.body /= None
        THEN IF ~attachments.ok THEN attachments
             ELSE [ok |-> TRUE, target |-> Some(message.replace[1]),
                   payload |-> PayloadCorrection(message.body[1], <<>>,
                                                 attachments.attachments)]
        ELSE IF message.received_marker /= None
        THEN [ok |-> TRUE, target |-> Some(message.received_marker[1].id),
              payload |-> PayloadDeliveryReceipt]
        ELSE IF message.displayed_marker /= None
        THEN [ok |-> TRUE, target |-> Some(message.displayed_marker[1].id),
              payload |-> PayloadReadReceipt]
        ELSE IF message.body /= None
        THEN IF ~attachments.ok THEN attachments
             ELSE [ok |-> TRUE, target |-> None,
                   payload |-> PayloadMessage(message.body[1], attachments.attachments)]
        ELSE [ok |-> FALSE, error |-> "NoPayload"]

\* MessageLike::try_from(&mam::ArchivedMessage) (message_like.rs 172-219),
\* behind MessageParser::parse_mam_message
parse_mam_message(archive_message) ==
    LET forwarded == archive_message.forwarded
    IN  IF forwarded.stanza = None
        THEN [ok |-> FALSE, error |-> "missing_child_node"]
        ELSE LET message  == forwarded.stanza[1]
                 targeted == TargetedPayload_try_from(message)
             IN  IF ~targeted.ok THEN targeted
                 ELSE IF forwarded.delay = None
                 THEN [ok |-> FALSE, error |-> "missing_child_node"]
                 ELSE [ok |-> TRUE,
                       message |->
                           MessageLikeAt(MessageLikeId_new(message.id, archive_message.id),
                                         Some(archive_message.id), targeted.target,
                                         message.from, forwarded.delay[1],
                                         targeted.payload)]

\* MessageArchiveService::load_messages_before: up to `limit` items ending
\* just before `before` (from the newest when None), oldest first; is_last
\* when no older item is left
MessageArchiveService_load_messages_before(before, limit) ==
    LET end   == IF before = None THEN Len(archive) + 1
                 ELSE Min({i \in DOMAIN archive : archive[i].id = before[1]}
                            \cup {Len(archive) + 1})
        first == IF end - limit < 1 THEN 1 ELSE end - limit
    IN  [messages |-> SubSeq(archive, first, end - 1), is_last |-> first = 1]

\* whether a row targets one of the ids
Targets(row, targeted_ids) ==
    row.target /= None /\ Contains(targeted_ids, row.target[1])

\* MessagesRepository::get_messages_targeting: "all messages that target any
\* IDs contained in `targeted_id` and are newer than `newer_than`"
MessagesRepository_get_messages_targeting(repo, targeted_ids, newer_than) ==
    Chronological(SelectSeq(repo,
        LAMBDA row : Targets(row, targeted_ids) /\ row.timestamp > newer_than))

\* the loop condition of load_messages (469)
LoopCondition(frame) ==
    /\ frame.num_text_messages < ctx.config.message_page_size
    /\ frame.loaded_pages < ctx.config.max_message_pages_to_load

\* the ids a text message is recorded under (516-521)
TextMessageIds(parsed_message) ==
    (IF into_original_id(parsed_message.id) /= None
     THEN <<RemoteId(into_original_id(parsed_message.id)[1])>> ELSE <<>>)
    \o (IF parsed_message.stanza_id /= None
        THEN <<ServerId(parsed_message.stanza_id[1])>> ELSE <<>>)

\* mutant: an archived error message is kept like any other
KeepParsed_ErrorsToo(frame, archive_message) ==
    LET parsed == parse_mam_message(archive_message)
    IN  IF ~parsed.ok THEN frame
        ELSE LET parsed_message == parsed.message
                 is_message == parsed_message.payload.kind = "Message"
             IN  [frame EXCEPT
                    !.num_text_messages = IF is_message THEN @ + 1 ELSE @,
                    !.text_message_ids =
                        IF is_message THEN @ \o TextMessageIds(parsed_message) ELSE @,
                    !.messages = Append(@, parsed_message)]

\* the body of the loop over a page (486-525): what one archived message adds
\* to the locals
KeepParsed(frame, archive_message) ==
    LET parsed == parse_mam_message(archive_message)
    IN  IF ~parsed.ok THEN frame
        ELSE IF parsed.message.payload.kind = "Error" THEN frame
        ELSE LET parsed_message == parsed.message
                 is_message == parsed_message.payload.kind = "Message"
             IN  [frame EXCEPT
                    !.num_text_messages = IF is_message THEN @ + 1 ELSE @,
                    !.text_message_ids =
                        IF is_message THEN @ \o TextMessageIds(parsed_message) ELSE @,
                    !.messages = Append(@, parsed_message)]

\* the loop over a page, newest item first (486)
RECURSIVE KeepPage(_, _)
KeepPage(frame, page_rev) ==
    IF page_rev = <<>> THEN frame
    ELSE KeepPage(KeepParsed(frame, Head(page_rev)), Tail(page_rev))

\* load_messages up to the loop (458-469)
load_messages(c, before) ==
    /\ CanStart(c)
    /\ LET frame == [op |-> "load_messages", pc |-> "fetch", ret |-> "Pending",
                     before |-> before,
                     messages |-> <<>>,
                     last_message_id |-> before,
                     num_text_messages |-> 0,
                     text_message_ids |-> <<>>,
                     loaded_pages |-> 0,
                     fetched |-> <<>>,
                     later_targeting_earlier_messages |-> <<>>,
                     result_set |-> None,
                     appended |-> <<>>, emitted |-> <<>>]
       IN  calls' = [calls EXCEPT
                        ![c] = IF LoopCondition(frame) THEN frame
                               ELSE [frame EXCEPT !.pc = "loaded"]]
    /\ UNCHANGED <<data, message_repo, dispatched, wire, saved_settings, id_provider,
                   time_provider>>
    /\ UNCHANGED <<reducer_vars, history_vars, encryption_vars, client_vars>>

\* load_latest_messages (381-385)
load_latest_messages(c) == load_messages(c, None)

\* load_messages_before (387-390)
load_messages_before(c, stanza_id) == load_messages(c, Some(stanza_id))

\* mutant: the cursor stays where the call started
NextCursor_Stuck(frame, page) == frame.before

\* the cursor after a page (479, 529-531): the id of the page's first item,
\* cleared on the last page
NextCursor(frame, page) ==
    IF page.is_last \/ page.messages = <<>> THEN None
    ELSE Some(page.messages[1].id)

\* mutant: one page more than the cap
AfterPage_OneMore(frame, page) ==
    IF page.is_last
          \/ ~(/\ frame.num_text_messages < ctx.config.message_page_size
               /\ frame.loaded_pages < ctx.config.max_message_pages_to_load + 1)
    THEN "loaded" ELSE "fetch"

\* where the loop goes after a page (469, 529-532)
AfterPage(frame, page) ==
    IF page.is_last \/ ~LoopCondition(frame) THEN "loaded" ELSE "fetch"

\* one iteration of the loop (470-532): the fetch and what follows it; a
\* failed fetch ends the call
load_page(c, ok) ==
    /\ calls[c].op = "load_messages"
    /\ calls[c].pc = "fetch"
    /\ IF ~ok
       THEN calls' = [calls EXCEPT ![c] = Returned(@, "Err")]
       ELSE LET page  == MessageArchiveService_load_messages_before(
                             calls[c].last_message_id, ctx.config.message_page_size)
                kept  == KeepPage(calls[c], Reversed(page.messages))
                frame == [kept EXCEPT
                            !.loaded_pages = @ + 1,
                            !.fetched = Append(@,
                                [before |-> calls[c].last_message_id, page |-> page]),
                            !.last_message_id = NextCursor(calls[c], page)]
            IN  calls' = [calls EXCEPT
                            ![c] = [frame EXCEPT !.pc = AfterPage(frame, page)]]
    /\ UNCHANGED <<data, message_repo, dispatched, wire, saved_settings, id_provider,
                   time_provider>>
    /\ UNCHANGED <<reducer_vars, history_vars, encryption_vars, client_vars>>

\* mutant: the cached events are taken whatever their timestamp
LaterTargetingEarlier_AnyTime(frame, repo) ==
    IF frame.before /= None /\ frame.text_message_ids /= <<>>
    THEN IF frame.messages /= <<>>
         THEN MessagesRepository_get_messages_targeting(
                  repo, frame.text_message_ids, 0)
         ELSE <<>>
    ELSE <<>>

\* later_targeting_earlier_messages (535-554)
LaterTargetingEarlier(frame, repo) ==
    IF frame.before /= None /\ frame.text_message_ids /= <<>>
    THEN IF frame.messages /= <<>>
         THEN MessagesRepository_get_messages_targeting(
                  repo, frame.text_message_ids, frame.messages[1].timestamp)
         ELSE <<>>
    ELSE <<>>

\* after the loop: the cached events that target what was loaded (535-554)
get_messages_targeting(c) ==
    /\ calls[c].op = "load_messages"
    /\ calls[c].pc = "loaded"
    /\ calls' = [calls EXCEPT
                    ![c].pc = "append",
                    ![c].later_targeting_earlier_messages =
                        LaterTargetingEarlier(calls[c], message_repo)]
    /\ UNCHANGED <<data, message_repo, dispatched, wire, saved_settings, id_provider,
                   time_provider>>
    /\ UNCHANGED <<reducer_vars, history_vars, encryption_vars, client_vars>>

(* The sender of a message (Room::reduce_messages_and_add_sender and
   Room::resolve_message_sender, room.rs 582-698). Participant ids are
   ParticipantId::User or ParticipantId::Occupant; user ids, occupant ids and
   names are sequences of characters. *)

UserParticipant(id) == [kind |-> "User", id |-> id]

OccupantParticipant(id) == [kind |-> "Occupant", id |-> id]

\* ParticipantId::to_user_id
ParticipantId_to_user_id(id) == IF id.kind = "User" THEN Some(id.id) ELSE None

\* ParticipantList::get: the participant of the id, if the room has one
ParticipantList_get(participants, id) ==
    IF id \in DOMAIN participants THEN Some(participants[id]) ELSE None

\* UserProfileRepository::get_display_name followed by unwrap_or_default: the
\* stored name, None when there is none or when the repository fails
get_display_name_or_default(repo, user_id) ==
    IF user_id \in DOMAIN repo /\ repo[user_id].ok THEN repo[user_id].name ELSE None

ToUpper(char) ==
    CASE char = "a" -> "A" [] char = "b" -> "B" [] char = "c" -> "C" [] OTHER -> char

Capitalized(chars) ==
    IF chars = <<>> THEN <<>> ELSE <<ToUpper(chars[1])>> \o Tail(chars)

\* position of the first `separator` in chars (Len + 1: none)
SeparatorAt(chars, separator) ==
    IF \E i \in DOMAIN chars : chars[i] = separator
    THEN CHOOSE i \in DOMAIN chars :
            chars[i] = separator /\ \A j \in 1..(i - 1) : chars[j] /= separator
    ELSE Len(chars) + 1

\* UserId::formatted_username: the part before the "@", capitalized
formatted_username(user_id) ==
    Capitalized(SubSeq(user_id, 1, SeparatorAt(user_id, "@") - 1))

\* OccupantId::formatted_nickname: the nickname behind the "/", capitalized
formatted_nickname(occupant_id) ==
    Capitalized(SubSeq(occupant_id, SeparatorAt(occupant_id, "/") + 1, Len(occupant_id)))

\* struct MessageSender
MessageSender(id, name) == [id |-> id, name |-> name]

\* mutant: the sender keeps the id the message came with
resolve_message_sender_KeepsId(id) ==
    LET participant == ParticipantList_get(data.participants, id)
        name        == IF participant = None THEN None ELSE participant[1].name
        real_id     == IF participant /= None /\ participant[1].real_id /= None
                       THEN participant[1].real_id
                       ELSE ParticipantId_to_user_id(id)
        sender_id   == id
        display     == IF real_id = None THEN None
                       ELSE get_display_name_or_default(user_profile_repo, real_id[1])
    IN  IF name /= None THEN MessageSender(sender_id, name[1])
        ELSE IF display /= None THEN MessageSender(sender_id, display[1])
        ELSE MessageSender(sender_id,
                           IF id.kind = "User" THEN formatted_username(id.id)
                           ELSE formatted_nickname(id.id))

\* Room::resolve_message_sender (654-698)
resolve_message_sender(id) ==
    LET participant == ParticipantList_get(data.participants, id)
        name        == IF participant = None THEN None ELSE participant[1].name
        real_id     == IF participant /= None /\ participant[1].real_id /= None
                       THEN participant[1].real_id
                       ELSE ParticipantId_to_user_id(id)
        sender_id   == IF real_id /= None THEN UserParticipant(real_id[1]) ELSE id
        display     == IF real_id = None THEN None
                       ELSE get_display_name_or_default(user_profile_repo, real_id[1])
    IN  IF name /= None THEN MessageSender(sender_id, name[1])
        ELSE IF display /= None THEN MessageSender(sender_id, display[1])
        ELSE MessageSender(sender_id,
                           IF id.kind = "User" THEN formatted_username(id.id)
                           ELSE formatted_nickname(id.id))

\* the nested resolve_message_sender (596-606): the id is resolved unless
\* message_senders has it; `resolved` lists the ids the room was asked for
resolve_cached(senders, id) ==
    IF id \in DOMAIN senders.map THEN senders
    ELSE [map |-> senders.map @@ (id :> resolve_message_sender(id)),
          resolved |-> Append(senders.resolved, id)]

RECURSIVE resolve_all(_, _)
resolve_all(senders, ids) ==
    IF ids = <<>> THEN senders
    ELSE resolve_all(resolve_cached(senders, Head(ids)), Tail(ids))

\* the ids the loop asks for (608-627): each message's sender, then the
\* authors of its reactions
RECURSIVE ReactionAuthors(_)
ReactionAuthors(reactions) ==
    IF reactions = <<>> THEN <<>>
    ELSE Head(reactions).from \o ReactionAuthors(Tail(reactions))

RECURSIVE SenderIds(_)
SenderIds(messages) ==
    IF messages = <<>> THEN <<>>
    ELSE <<Head(messages).from>> \o ReactionAuthors(Head(messages).reactions)
            \o SenderIds(Tail(messages))

\* struct MessageDTO (631-646)
MessageDTO(message, map, last_read_message_id) ==
    [is_last_read |-> message.remote_id = last_read_message_id]
    @@ [message EXCEPT
            !.from = map[@],
            !.reactions =
                [i \in DOMAIN @ |->
                    [emoji |-> @[i].emoji,
                     from |-> [j \in DOMAIN @[i].from |-> map[@[i].from[j]]]]]]

\* Room::reduce_messages_and_add_sender (582-652) with the ids it resolved
add_sender(messages) ==
    LET senders == resolve_all([map |-> <<>>, resolved |-> <<>>], SenderIds(messages))
        last_read_message_id ==
            IF data.settings.last_read_message = None THEN None
            ELSE Some(data.settings.last_read_message[1].id)
    IN  [message_dtos |->
            [i \in DOMAIN messages |->
                MessageDTO(messages[i], senders.map, last_read_message_id)],
         resolved |-> senders.resolved]

\* Room::reduce_messages_and_add_sender (582-652); a room that is modelled
\* without its participants hands out the messages as they were reduced
reduce_messages_and_add_sender(messages) ==
    IF "participants" \in DOMAIN data
    THEN add_sender(reducing_messages(messages)).message_dtos
    ELSE reducing_messages(messages)

\* mutant: the loaded events are reduced newest first
MessageResultSet_Unreversed(frame) ==
    [messages |-> reduce_messages_and_add_sender(
                      frame.messages \o frame.later_targeting_earlier_messages),
     last_message_id |-> frame.last_message_id]

\* struct MessageResultSet (567-577): the reduction of the loaded events,
\* oldest first, followed by the cached ones
MessageResultSet(frame) ==
    [messages |-> reduce_messages_and_add_sender(
                      Reversed(frame.messages)
                          \o frame.later_targeting_earlier_messages),
     last_message_id |-> frame.last_message_id]

\* the loaded events are saved, the result is returned (556-579)
append_loaded(c) ==
    /\ calls[c].op = "load_messages"
    /\ calls[c].pc = "append"
    /\ message_repo' = message_repo \o calls[c].messages
    /\ calls' = [calls EXCEPT
                    ![c] = [Returned(@, "Ok") EXCEPT
                              !.appended = calls[c].messages,
                              !.result_set = Some(MessageResultSet(calls[c]))]]
    /\ UNCHANGED <<data, dispatched, wire, saved_settings, id_provider, time_provider>>
    /\ UNCHANGED <<reducer_vars, history_vars, encryption_vars, client_vars>>

(* The archives and configurations history loading is run on *)

\* Most items the archive holds
MaxArchive == 3

\* the server id the archive gives its n-th item
ServerIdAt(n) == <<"s", Digits[n]>>

\* what the archive holds: a text message, a text message without id
\* attribute, reactions to the first by client id and to the archive's first
\* item by server id, an error, a stanza without payload, and an envelope
\* without stanza
ArchiveStanzas ==
    { Some(Stanza(Some(<<"1">>), "b", None, None, Some("A"))),
      Some(Stanza(None, "a", None, None, Some("B"))),
      Some(Stanza(None, "a", None,
                  Some([id |-> RemoteId(Id1), reactions |-> <<"x">>]), None)),
      Some(Stanza(None, "b", None,
                  Some([id |-> ServerId(ServerIdAt(1)), reactions |-> <<"y">>]), None)),
      Some(Stanza(Some(<<"2">>), "b", Some("E"), None, Some("A"))),
      Some(Stanza(None, "b", None, None, None)),
      None }

\* archives: the n-th item carries the n-th server id and the n-th instant
Archives ==
    { [n \in DOMAIN stanzas |-> ArchivedMessage(ServerIdAt(n), Some(n), stanzas[n])] :
        stanzas \in SeqsUpTo(ArchiveStanzas, MaxArchive) }

\* what loading the items puts into the repository
RECURSIVE Cached(_)
Cached(items) ==
    IF items = <<>> THEN <<>>
    ELSE KeepParsed([num_text_messages |-> 0, text_message_ids |-> <<>>,
                     messages |-> Cached(Tail(items))], Head(items)).messages

\* page sizes and page caps
Configs ==
    [message_page_size : {1, 2}, max_message_pages_to_load : {1, 2}]

\* a Room whose repository holds the newest part of the archive, or nothing
InitHistory ==
    /\ ReducerAbsent
    /\ ClientAbsent
    /\ EncryptionAbsent
    /\ archive \in Archives
    /\ \E config \in Configs : ctx = [config |-> config, connection_timestamp |-> None]
    /\ local_room_settings = <<>>
    /\ data = [room_id |-> [kind |-> "User"], type |-> "DirectMessage",
               settings |-> SyncedRoomSettings(None, FALSE),
               needs_update_statistics |-> FALSE]
    /\ \E k \in 1..(Len(archive) + 1) :
          message_repo = Cached(SubSeq(archive, k, Len(archive)))
    /\ dispatched = <<>>
    /\ wire = <<>>
    /\ saved_settings = <<>>
    /\ calls = [c \in CallIds |-> IdleFrame]
    /\ id_provider = 0
    /\ time_provider = FirstNow

\* the cursors load_messages_before is called with: what an earlier load
\* returned, or the id of an item the application kept from an earlier run
Cursors ==
    {archive[i].id : i \in DOMAIN archive}

\* the call before c has returned
PreviousReturned(c) == c > 1 => calls[c - 1].pc = "done"

\* loads, each started after the one before it returned
NextHistory ==
    \E c \in CallIds :
        \/ PreviousReturned(c) /\ load_latest_messages(c)
        \/ PreviousReturned(c)
              /\ \E stanza_id \in Cursors : load_messages_before(c, stanza_id)
        \/ \E ok \in BOOLEAN : load_page(c, ok)
        \/ get_messages_targeting(c)
        \/ append_loaded(c)

SpecHistory == InitHistory /\ [][NextHistory]_vars

----------------------------------------------------------------------------
(* Catching up on a room's archive (MessageArchiveDomainService,
   message_archive_domain_service.rs) *)

\* const MAX_CATCHUP_DURATION_SECS
MAX_CATCHUP_DURATION_SECS == 60 * 60 * 24 * 5

\* DateTime::<Utc>::MIN_UTC
MIN_UTC == 0

\* Items in one page of a catch-up (100 in the code, which no archive of the
\* model fills)
CatchupPageSize == 2

\* mutant: the newest received message is not looked at
OptionMax_First(a, b) == a

\* Option<DateTime>::max: None is the least
OptionMax(a, b) ==
    IF a = None THEN b
    ELSE IF b = None THEN a
    ELSE IF a[1] >= b[1] THEN a ELSE b

\* the first `limit` of the items, and whether they are all of them
FirstPage(items, limit) ==
    [messages |-> SubSeq(items, 1, IF Len(items) < limit THEN Len(items) ELSE limit),
     is_last |-> Len(items) <= limit]

\* MessageArchiveService::load_messages_since: the items archived at `since`
\* or later, oldest first
MessageArchiveService_load_messages_since(since, limit) ==
    FirstPage(SelectSeq(archive, LAMBDA item : item.forwarded.delay[1] >= since), limit)

\* MessageArchiveService::load_messages_after: the items archived after the
\* one with the id, oldest first
MessageArchiveService_load_messages_after(message_id, limit) ==
    LET after == Min({i \in DOMAIN archive : archive[i].id = message_id}
                        \cup {Len(archive) + 1})
    IN  FirstPage(SubSeq(archive, after + 1, Len(archive)), limit)

\* MessagesRepository::get_last_received_message: "the latest message, if
\* available, that has a `stanza_id` set and was received before `before`"
MessagesRepository_get_last_received_message(repo, before) ==
    LET rows == SelectSeq(Chronological(repo),
                    LAMBDA row : /\ IsMessageOrError(row)
                                 /\ row.stanza_id /= None
                                 /\ row.timestamp < before)
    IN  IF rows = <<>> THEN None
        ELSE Some([stanza_id |-> rows[Len(rows)].stanza_id[1],
                   timestamp |-> rows[Len(rows)].timestamp])

\* the body of parse_message_page's loop (151-188): what one archived message
\* adds to `messages` and `unread_count`
ParseArchived(frame, archive_message) ==
    LET parsed == parse_mam_message(archive_message)
    IN  IF ~parsed.ok THEN frame
        ELSE IF parsed.message.payload.kind = "Error" THEN frame
        ELSE [frame EXCEPT
                !.unread_count =
                    IF /\ parsed.message.payload.kind = "Message"
                       /\ parsed.message.timestamp > frame.last_read_message_timestamp
                    THEN @ + 1 ELSE @,
                !.messages = Append(@, parsed.message)]

\* parse_message_page (146-190)
RECURSIVE parse_message_page(_, _)
parse_message_page(frame, page_messages) ==
    IF page_messages = <<>> THEN frame
    ELSE parse_message_page(ParseArchived(frame, Head(page_messages)),
                            Tail(page_messages))

\* catchup_room up to the first fetch (41-84): the settings and the
\* repository are read, the start of the query is computed
catchup_room(c) ==
    /\ CanStart(c)
    /\ LET frame == [op |-> "catchup_room", pc |-> "idle", ret |-> "Pending",
                     appended |-> <<>>, emitted |-> <<>>]
       IN  IF ~data.features.mam_supported
           THEN calls' = [calls EXCEPT ![c] = Returned(frame, "Ok")]
           ELSE IF ctx.connection_timestamp = None
           THEN calls' = [calls EXCEPT ![c] = Returned(frame, "Err")]
           ELSE LET last_read_message_timestamp ==
                        IF local_room_settings.last_read_message = None THEN MIN_UTC
                        ELSE local_room_settings.last_read_message[1].timestamp
                    last_received ==
                        MessagesRepository_get_last_received_message(
                            message_repo, ctx.connection_timestamp[1])
                    last_received_message_time ==
                        IF last_received = None THEN None
                        ELSE Some(last_received[1].timestamp)
                    newest == OptionMax(local_room_settings.last_catchup_time,
                                        last_received_message_time)
                    floor  == time_provider - MAX_CATCHUP_DURATION_SECS
                    start  == IF newest = None THEN MIN_UTC ELSE newest[1]
                IN  calls' = [calls EXCEPT ![c] =
                        [op |-> "catchup_room", pc |-> "since", ret |-> "Pending",
                         last_read_message_timestamp |-> last_read_message_timestamp,
                         catchup_since |-> IF start >= floor THEN start ELSE floor,
                         messages |-> <<>>,
                         unread_count |-> 0,
                         last_message_id |-> None,
                         is_last_page |-> FALSE,
                         fetched |-> <<>>,
                         appended |-> <<>>, emitted |-> <<>>]]
    /\ UNCHANGED <<data, message_repo, dispatched, wire, saved_settings, id_provider,
                   time_provider>>
    /\ UNCHANGED <<reducer_vars, history_vars, encryption_vars, client_vars>>

\* mutant: the loop is left after the first page
AfterCatchupPage_OnePage(frame, request, page) ==
    LET parsed == parse_message_page(frame, page.messages)
        last   == IF page.messages = <<>> THEN None
                  ELSE Some(page.messages[Len(page.messages)].id)
    IN  [parsed EXCEPT
            !.last_message_id = last,
            !.is_last_page = page.is_last,
            !.fetched = Append(@, [request |-> request, page |-> page]),
            !.pc = "append"]

\* what catchup_room does with the page a request brought (90-100, 112-123)
AfterCatchupPage(frame, request, page) ==
    LET parsed == parse_message_page(frame, page.messages)
        last   == IF page.messages = <<>> THEN None
                  ELSE Some(page.messages[Len(page.messages)].id)
    IN  [parsed EXCEPT
            !.last_message_id = last,
            !.is_last_page = page.is_last,
            !.fetched = Append(@, [request |-> request, page |-> page]),
            !.pc = IF ~page.is_last /\ last /= None THEN "after" ELSE "append"]

\* the first fetch, from the start of the query (86-100); a failed fetch ends
\* the call
load_messages_since(c, ok) ==
    /\ calls[c].op = "catchup_room"
    /\ calls[c].pc = "since"
    /\ calls' = [calls EXCEPT ![c] =
            IF ~ok THEN Returned(@, "Err")
            ELSE AfterCatchupPage(@,
                    [op |-> "load_messages_since", since |-> calls[c].catchup_since,
                     limit |-> CatchupPageSize],
                    MessageArchiveService_load_messages_since(
                        calls[c].catchup_since, CatchupPageSize))]
    /\ UNCHANGED <<data, message_repo, dispatched, wire, saved_settings, id_provider,
                   time_provider>>
    /\ UNCHANGED <<reducer_vars, history_vars, encryption_vars, client_vars>>

\* mutant: a failing page fetch stores the messages parsed so far
load_messages_after_KeepsParsed(c, ok) ==
    /\ calls[c].op = "catchup_room"
    /\ calls[c].pc = "after"
    /\ calls' = [calls EXCEPT ![c] =
            IF ~ok THEN [Returned(@, "Err") EXCEPT !.appended = calls[c].messages]
            ELSE AfterCatchupPage(@,
                    [op |-> "load_messages_after", after |-> calls[c].last_message_id[1],
                     limit |-> CatchupPageSize],
                    MessageArchiveService_load_messages_after(
                        calls[c].last_message_id[1], CatchupPageSize))]
    /\ message_repo' = IF ok THEN message_repo ELSE message_repo \o calls[c].messages
    /\ UNCHANGED <<data, dispatched, wire, saved_settings, id_provider, time_provider>>
    /\ UNCHANGED <<reducer_vars, history_vars, encryption_vars, client_vars>>

\* one iteration of the loop (103-124): the fetch after the last item seen
load_messages_after(c, ok) ==
    /\ calls[c].op = "catchup_room"
    /\ calls[c].pc = "after"
    /\ calls' = [calls EXCEPT ![c] =
            IF ~ok THEN Returned(@, "Err")
            ELSE AfterCatchupPage(@,
                    [op |-> "load_messages_after", after |-> calls[c].last_message_id[1],
                     limit |-> CatchupPageSize],
                    MessageArchiveService_load_messages_after(
                        calls[c].last_message_id[1], CatchupPageSize))]
    /\ UNCHANGED <<data, message_repo, dispatched, wire, saved_settings, id_provider,
                   time_provider>>
    /\ UNCHANGED <<reducer_vars, history_vars, encryption_vars, client_vars>>

\* after the loop (126-141): the batch is appended, the catch-up time and the
\* unread count are set
finish_catchup(c) ==
    /\ calls[c].op = "catchup_room"
    /\ calls[c].pc = "append"
    /\ message_repo' = message_repo \o calls[c].messages
    /\ local_room_settings' =
            [local_room_settings EXCEPT !.last_catchup_time = Some(time_provider)]
    /\ data' = [data EXCEPT !.unread_count = calls[c].unread_count]
    /\ calls' = [calls EXCEPT
                    ![c] = [Returned(@, "Ok") EXCEPT !.appended = calls[c].messages]]
    /\ UNCHANGED <<archive, ctx, dispatched, wire, saved_settings, id_provider,
                   time_provider>>
    /\ UNCHANGED <<reducer_vars, encryption_vars, client_vars>>

\* the instants the clock may show when a room is set up: the catch-up floor
\* is then at the archive's origin or between its items
ClockStarts == {MAX_CATCHUP_DURATION_SECS, MAX_CATCHUP_DURATION_SECS + 2}

\* TimeProvider::now() moves on (once, from where it started)
advance_clock ==
    /\ time_provider \in ClockStarts
    /\ time_provider' = time_provider + 1
    /\ UNCHANGED <<data, message_repo, dispatched, wire, saved_settings, calls, id_provider>>
    /\ UNCHANGED <<reducer_vars, history_vars, encryption_vars, client_vars>>

\* a room before a catch-up: the archive reaches back to the catch-up floor or
\* past it, the repository holds nothing or the archive's oldest item
InitCatchup ==
    /\ ReducerAbsent
    /\ ClientAbsent
    /\ EncryptionAbsent
    /\ archive \in Archives
    /\ \E connection_timestamp \in {None, Some(MaxArchive + 1)} :
          ctx = [config |-> [message_page_size |-> 2, max_message_pages_to_load |-> 2],
                 connection_timestamp |-> connection_timestamp]
    /\ \E last_catchup_time \in {None, Some(1)} :
       \E last_read_message \in {None, Some([id |-> Id1, timestamp |-> 1])} :
          local_room_settings = [last_catchup_time |-> last_catchup_time,
                                 last_read_message |-> last_read_message]
    /\ \E mam_supported \in BOOLEAN :
          data = [room_id |-> [kind |-> "Muc"], type |-> "PublicChannel",
                  settings |-> SyncedRoomSettings(None, FALSE),
                  needs_update_statistics |-> FALSE,
                  features |-> [mam_supported |-> mam_supported],
                  unread_count |-> 0]
    /\ \E k \in {0, 1} :
          message_repo = Cached(SubSeq(archive, 1, IF Len(archive) < k THEN 0 ELSE k))
    /\ dispatched = <<>>
    /\ wire = <<>>
    /\ saved_settings = <<>>
    /\ calls = [c \in CallIds |-> IdleFrame]
    /\ id_provider = 0
    /\ time_provider \in ClockStarts

\* catch-ups, one after the other
NextCatchup ==
    \E c \in CallIds :
        \/ PreviousReturned(c) /\ catchup_room(c)
        \/ \E ok \in BOOLEAN : load_messages_since(c, ok)
        \/ \E ok \in BOOLEAN : load_messages_after(c, ok)
        \/ finish_catchup(c)

\* catch-ups while the clock moves on
NextCatchupClock == NextCatchup \/ advance_clock

SpecCatchup == InitCatchup /\ [][NextCatchupClock]_vars

\* history loads and catch-ups on one room, one after the other
InitPages ==
    /\ InitCatchup
    /\ data.features.mam_supported
    /\ ctx.connection_timestamp /= None
    /\ local_room_settings.last_catchup_time = None
    /\ message_repo = <<>>

NextPages == NextHistory \/ NextCatchup

SpecPages == InitPages /\ [][NextPages]_vars

----------------------------------------------------------------------------
(* The symmetric layer of EncryptionDomainService
   (encryption_domain_service.rs): AES-128-GCM over the bytes of the message,
   the tag carried with the key *)

\* const KEY_SIZE, const MAC_SIZE
KEY_SIZE == 16

MAC_SIZE == 16

\* the nonce of Aes128Gcm
NONCE_SIZE == 12

\* Characters a message is written with: one of one byte and one of two bytes
\* in UTF-8
Chars == {65, 233}

\* Longest message
MaxPlain == 2

RECURSIVE SumOf(_)
SumOf(bytes) == IF bytes = <<>> THEN 0 ELSE Head(bytes) + SumOf(Tail(bytes))

\* String::as_bytes: the UTF-8 encoding of the characters
RECURSIVE as_bytes(_)
as_bytes(message) ==
    IF message = <<>> THEN <<>>
    ELSE LET c == Head(message)
         IN  (IF c < 128 THEN <<c>> ELSE <<192 + (c \div 64), 128 + (c % 64)>>)
                \o as_bytes(Tail(message))

\* String::from_utf8: the characters of well-formed UTF-8, or an error
RECURSIVE from_utf8(_)
from_utf8(bytes) ==
    IF bytes = <<>> THEN [ok |-> TRUE, message |-> <<>>]
    ELSE IF Head(bytes) < 128
    THEN LET rest_ == from_utf8(Tail(bytes))
         IN  IF rest_.ok THEN [ok |-> TRUE, message |-> <<Head(bytes)>> \o rest_.message]
             ELSE rest_
    ELSE IF /\ Head(bytes) >= 194 /\ Head(bytes) < 224
            /\ Len(bytes) >= 2
            /\ bytes[2] >= 128 /\ bytes[2] < 192
    THEN LET rest_ == from_utf8(Tail(Tail(bytes)))
         IN  IF rest_.ok
             THEN [ok |-> TRUE,
                   message |-> <<(Head(bytes) - 192) * 64 + (bytes[2] - 128)>> \o rest_.message]
             ELSE rest_
    ELSE [ok |-> FALSE]

\* the key stream and the tag of the cipher: functions of key, nonce and
\* position, and of key, nonce and ciphertext
KeyStream(seed, i) == (seed + 7 * i) % 256

StreamSeed(key, nonce) == SumOf(key) + 3 * SumOf(nonce)

AeadTag(key, nonce, ciphertext) ==
    LET digest == 5 * SumOf(key) + SumOf(nonce) + 11 * SumOf(ciphertext) + Len(ciphertext)
    IN  [j \in 1..MAC_SIZE |-> (digest + j) % 256]

\* Aead::encrypt: the ciphertext, as long as the plaintext, followed by the tag
Aead_encrypt(key, nonce, plaintext) ==
    LET seed == StreamSeed(key, nonce)
        ciphertext == [i \in 1..Len(plaintext) |-> (plaintext[i] + KeyStream(seed, i)) % 256]
    IN  ciphertext \o AeadTag(key, nonce, ciphertext)

\* Aead::decrypt: the plaintext when the tag at the end is the ciphertext's
Aead_decrypt(key, nonce, sealed) ==
    IF Len(sealed) < MAC_SIZE THEN [ok |-> FALSE]
    ELSE LET ciphertext == SubSeq(sealed, 1, Len(sealed) - MAC_SIZE)
             tag        == SubSeq(sealed, Len(sealed) - MAC_SIZE + 1, Len(sealed))
         IN  IF tag /= AeadTag(key, nonce, ciphertext) THEN [ok |-> FALSE]
             ELSE [ok |-> TRUE,
                   bytes |-> [i \in 1..Len(ciphertext) |->
                                (ciphertext[i] + 256
                                    - KeyStream(StreamSeed(key, nonce), i)) % 256]]

\* what the random number generator hands out: keys and nonces
Keys == {[i \in 1..KEY_SIZE |-> 1], [i \in 1..KEY_SIZE |-> i]}

Nonces == {[i \in 1..NONCE_SIZE |-> 0], [i \in 1..NONCE_SIZE |-> 2 * i]}

\* mutant: the ciphertext is cut at the number of characters
seal_message_CharCount(message, dek, nonce) ==
    LET payload == Aead_encrypt(dek, nonce, as_bytes(message))
    IN  [dek_and_mac |-> dek \o SubSeq(payload, Len(message) + 1, Len(message) + MAC_SIZE),
         payload |-> SubSeq(payload, 1, Len(message))]

\* encrypt_message (205-215): the message is encrypted, the tag is taken off
\* the ciphertext and put behind the key (message.len() counts bytes)
seal_message(message, dek, nonce) ==
    LET payload == Aead_encrypt(dek, nonce, as_bytes(message))
        len     == Len(as_bytes(message))
    IN  [dek_and_mac |-> dek \o SubSeq(payload, len + 1, Len(payload)),
         payload |-> SubSeq(payload, 1, len)]

\* decrypt_payload (571-585): key and tag are split, the tag is put back
\* behind the ciphertext, the plaintext is decoded
open_message(dek_and_mac, iv, payload) ==
    LET dek == SubSeq(dek_and_mac, 1, KEY_SIZE)
        mac == SubSeq(dek_and_mac, KEY_SIZE + 1, KEY_SIZE + MAC_SIZE)
        plain == Aead_decrypt(dek, iv, payload \o mac)
    IN  IF ~plain.ok THEN [ok |-> FALSE, error |-> "Other"]
        ELSE LET message == from_utf8(plain.bytes)
             IN  IF ~message.ok THEN [ok |-> FALSE, error |-> "Other"]
                 ELSE [ok |-> TRUE, message |-> message.message]

----------------------------------------------------------------------------
(* Sessions and devices of EncryptionDomainService *)

\* the connected user and a contact
CurrentUser == "me"

Peer == "peer"

Users == {CurrentUser, Peer}

\* Most device ids a user's devices are numbered with
MaxDevices == 2

DeviceIds == 1..MaxDevices

\* Device {id, label}
Device(id, label) == [id |-> id, label |-> label]

\* Session {device_id, trust, is_active}
Session(device_id, trust, is_active) ==
    [device_id |-> device_id, trust |-> trust, is_active |-> is_active]

\* Session::is_trusted_or_undecided
is_trusted_or_undecided(session) == session.trust \in {"Trusted", "Undecided"}

\* SessionRepository::get_all_sessions: the user's sessions, by device id
RECURSIVE SessionsFrom(_, _, _)
SessionsFrom(repo, user_id, device_id) ==
    IF device_id > MaxDevices THEN <<>>
    ELSE repo[user_id][device_id] \o SessionsFrom(repo, user_id, device_id + 1)

SessionRepository_get_all_sessions(repo, user_id) == SessionsFrom(repo, user_id, 1)

\* SessionRepository::get_session
SessionRepository_get_session(repo, user_id, device_id) == repo[user_id][device_id]

\* SessionRepository::put_active_devices: the sessions with the listed devices
\* are active, the user's other sessions are not
SessionRepository_put_active_devices(repo, user_id, device_ids) ==
    [repo EXCEPT ![user_id] =
        [d \in DeviceIds |->
            IF repo[user_id][d] = None THEN None
            ELSE Some([repo[user_id][d][1] EXCEPT !.is_active = Contains(device_ids, d)])]]

\* the ids of the devices of a list
RECURSIVE DeviceIdsOf(_)
DeviceIdsOf(devices) ==
    IF devices = <<>> THEN <<>> ELSE <<Head(devices).id>> \o DeviceIdsOf(Tail(devices))

\* Vec::retain(|device| &device.id != device_id)
WithoutDevice(devices, device_id) ==
    SelectSeq(devices, LAMBDA device : device.id /= device_id)

\* build_local_device_label (652-659)
build_local_device_label == "Prose"

\* unpublish_device (766-788): the repository's list without the device is
\* published, when the device is on it; `published` tells whether the server
\* took the list
unpublish_device(S, device_id, published) ==
    LET devices == WithoutDevice(S.user_device_repo[CurrentUser], device_id)
        Sa == [S EXCEPT !.unpublished = Append(@, device_id)]
    IN  IF Len(devices) = Len(S.user_device_repo[CurrentUser]) THEN Sa
        ELSE IF ~published THEN Sa
        ELSE [Sa EXCEPT !.user_device_service.device_lists = Append(@, devices)]

\* mutant: the device is unpublished whenever its session cannot be started
unpublish_once_Always(S, user_id, device_id, published) ==
    IF user_id = CurrentUser
    THEN unpublish_device(
            [S EXCEPT !.unpublish_device_attempts = @ \cup {device_id}],
            device_id, published)
    ELSE S

\* `if user_id == connected && unpublish_device_attempts.insert(device_id)
\* { unpublish_device }` (706-714, 737-746)
unpublish_once(S, user_id, device_id, published) ==
    IF user_id = CurrentUser /\ device_id \notin S.unpublish_device_attempts
    THEN unpublish_device(
            [S EXCEPT !.unpublish_device_attempts = @ \cup {device_id}],
            device_id, published)
    ELSE S

\* what the calls to the server and to the primitives come to during one
\* operation: the calls that fail and the device for which they do; the trust
\* a new session is given; whether wrapped keys are pre-key messages
Luck(fails, device, trust, is_pre_key) ==
    [fails |-> fails, device |-> device, trust |-> trust, is_pre_key |-> is_pre_key]

\* the call for the device fails
Fails(luck, call, user_id, device_id) ==
    call \in luck.fails /\ luck.device = <<user_id, device_id>>

\* the call, which is for no device, fails
FailsCall(luck, call) == call \in luck.fails

\* start_session_with_device (696-751); the session the primitive sets up is
\* active
start_session_with_device(S, user_id, device_id, luck) ==
    LET Sa == [S EXCEPT !.started = Append(@, <<user_id, device_id>>)]
        bundle == S.user_device_service.bundles[user_id][device_id]
    IN  IF Fails(luck, "load_device_bundle", user_id, device_id)
        THEN [S |-> Sa, ok |-> FALSE]
        ELSE IF bundle = None
        THEN [S |-> unpublish_once(Sa, user_id, device_id, ~FailsCall(luck, "publish_device_list")), ok |-> TRUE]
        ELSE IF bundle[1].pre_keys = <<>>
        THEN [S |-> Sa, ok |-> FALSE]
        ELSE IF Fails(luck, "process_pre_key_bundle", user_id, device_id)
        THEN [S |-> unpublish_once(Sa, user_id, device_id, ~FailsCall(luck, "publish_device_list")), ok |-> FALSE]
        ELSE [S |-> [Sa EXCEPT !.session_repo[user_id][device_id] =
                                    Some(Session(device_id, luck.trust, TRUE))],
              ok |-> TRUE]

\* the futures of start_sessions_if_needed (675-691), one device after the
\* other: a device without session is given one; all are run, one error makes
\* the result an error
RECURSIVE start_missing_sessions(_, _, _, _)
start_missing_sessions(S, user_id, device_ids, luck) ==
    IF device_ids = <<>> THEN [S |-> S, ok |-> TRUE]
    ELSE LET first ==
                IF SessionRepository_get_session(S.session_repo, user_id, Head(device_ids))
                        /= None
                THEN [S |-> S, ok |-> TRUE]
                ELSE start_session_with_device(S, user_id, Head(device_ids), luck)
             others == start_missing_sessions(first.S, user_id, Tail(device_ids), luck)
         IN  [S |-> others.S, ok |-> first.ok /\ others.ok]

\* start_sessions_if_needed (661-694)
start_sessions_if_needed(S, user_id, devices, luck) ==
    LET device_ids == DeviceIdsOf(devices)
    IN  start_missing_sessions(
            [S EXCEPT !.session_repo =
                SessionRepository_put_active_devices(@, user_id, device_ids)],
            user_id, device_ids, luck)

\* mutant: sessions that are not trusted count as well
get_active_and_trusted_device_ids_AnyTrust(repo, user_id) ==
    LET sessions == SelectSeq(SessionRepository_get_all_sessions(repo, user_id),
                              LAMBDA session : session.is_active)
    IN  [i \in DOMAIN sessions |-> sessions[i].device_id]

\* get_active_and_trusted_device_ids (753-764)
get_active_and_trusted_device_ids(repo, user_id) ==
    LET sessions == SelectSeq(SessionRepository_get_all_sessions(repo, user_id),
                              LAMBDA session :
                                  session.is_active /\ is_trusted_or_undecided(session))
    IN  [i \in DOMAIN sessions |-> sessions[i].device_id]

\* EncryptionService::encrypt_key: the data wrapped for one device of one user
EncryptionService_encrypt_key(user_id, device_id, dek_and_mac, is_pre_key) ==
    [device_id |-> device_id, is_pre_key |-> is_pre_key,
     data |-> [user_id |-> user_id, device_id |-> device_id, wrapped |-> dek_and_mac]]

\* the keys of join_all(encrypt_message_futures) (226-240)
RECURSIVE encrypt_keys(_, _, _)
encrypt_keys(targets, dek_and_mac, luck) ==
    IF targets = <<>> THEN <<>>
    ELSE <<EncryptionService_encrypt_key(Head(targets)[1], Head(targets)[2],
                                         dek_and_mac, luck.is_pre_key)>>
            \o encrypt_keys(Tail(targets), dek_and_mac, luck)

\* the store the operations of the service work on
Store ==
    [session_repo |-> session_repo,
     user_device_repo |-> user_device_repo,
     encryption_keys_repo |-> encryption_keys_repo,
     user_device_service |-> user_device_service,
     unpublish_device_attempts |-> unpublish_device_attempts,
     repair_session_attempts |-> repair_session_attempts,
     started |-> <<>>,
     unpublished |-> <<>>,
     sent |-> <<>>,
     generated |-> <<>>,
     published |-> <<>>]

\* the store becomes the state, the call is logged with what it started,
\* unpublished and sent, with the pre-keys it generated and the bundles it
\* published
Commit(S, call) ==
    /\ session_repo' = S.session_repo
    /\ user_device_repo' = S.user_device_repo
    /\ encryption_keys_repo' = S.encryption_keys_repo
    /\ user_device_service' = S.user_device_service
    /\ unpublish_device_attempts' = S.unpublish_device_attempts
    /\ repair_session_attempts' = S.repair_session_attempts
    /\ encryption_calls' =
            Append(encryption_calls,
                   call @@ [started |-> S.started, unpublished |-> S.unpublished,
                            sent |-> S.sent, generated |-> S.generated,
                            published |-> S.published])
    /\ UNCHANGED <<reducer_vars, room_vars, history_vars, client_vars>>

\* mutant: the keys are wrapped although the recipient has no device
their_active_device_ids_OrOurs(repo, recipient_id) ==
    LET theirs == get_active_and_trusted_device_ids(repo, recipient_id)
    IN  IF theirs = <<>>
        THEN [d \in DOMAIN get_active_and_trusted_device_ids(repo, CurrentUser) |->
                <<CurrentUser, get_active_and_trusted_device_ids(repo, CurrentUser)[d]>>]
        ELSE [i \in DOMAIN theirs |-> <<recipient_id, theirs[i]>>]

\* their_active_device_ids (180-203): the recipient's active sessions that are
\* trusted or undecided, as (user, device)
their_active_device_ids(repo, recipient_id) ==
    LET their_sessions ==
            SelectSeq(SessionRepository_get_all_sessions(repo, recipient_id),
                      LAMBDA session : session.is_active)
        trusted == SelectSeq(their_sessions, is_trusted_or_undecided)
    IN  [i \in DOMAIN trusted |-> <<recipient_id, trusted[i].device_id>>]

\* encrypt_message (131-250): the store it leaves and the call with its result
encrypt_message_on(store, recipient_id, message, dek, nonce, luck) ==
    LET call == [op |-> "encrypt_message", recipient_id |-> recipient_id,
                 message |-> message]
        local_device == store.encryption_keys_repo.local_device
    IN  IF local_device = None
        THEN [S |-> store, call |-> call @@ [result |-> [ok |-> FALSE, error |-> "Other"]]]
        ELSE
        LET ours == SelectSeq(store.user_device_repo[CurrentUser],
                              LAMBDA device : device.id /= local_device[1].device_id)
            ours_started == start_sessions_if_needed(store, CurrentUser, ours, luck)
            theirs_started == start_sessions_if_needed(ours_started.S, recipient_id,
                                    store.user_device_repo[recipient_id], luck)
            Sb == theirs_started.S
            theirs == their_active_device_ids(Sb.session_repo, recipient_id)
            sealed == seal_message(message, dek, nonce)
            our_active_device_ids ==
                SelectSeq(get_active_and_trusted_device_ids(Sb.session_repo, CurrentUser),
                          LAMBDA device_id : device_id /= local_device[1].device_id)
            targets == [i \in DOMAIN our_active_device_ids |->
                            <<CurrentUser, our_active_device_ids[i]>>] \o theirs
            failed == \E i \in DOMAIN targets :
                            Fails(luck, "encrypt_key", targets[i][1], targets[i][2])
            seen == call @@ [sessions |-> Sb.session_repo,
                             sessions_started |-> ours_started.ok /\ theirs_started.ok]
        IN  [S |-> Sb,
             call |->
                IF theirs = <<>>
                THEN seen @@ [wrapped |-> <<>>,
                              result |-> [ok |-> FALSE, error |-> "NoDevices"]]
                ELSE IF failed
                THEN seen @@ [wrapped |-> targets,
                              result |-> [ok |-> FALSE, error |-> "Other"]]
                ELSE seen @@
                    [wrapped |-> targets,
                     result |->
                        [ok |-> TRUE,
                         payload |->
                            [device_id |-> local_device[1].device_id,
                             iv |-> nonce,
                             keys |-> encrypt_keys(targets, sealed.dek_and_mac, luck),
                             payload |-> sealed.payload]]]]

\* the operation as a step of the service
encrypt_message(recipient_id, message, dek, nonce, luck) ==
    \E done \in {encrypt_message_on(Store, recipient_id, message, dek, nonce, luck)} :
        Commit(done.S, done.call)

\* a device as the service may find it: without session and without bundle on
\* the server, without session and with a bundle (with or without pre-keys),
\* or with a session of some trust, active or not
Situations ==
    {[session |-> None, bundle |-> None],
     [session |-> None, bundle |-> Some([pre_keys |-> <<1>>])],
     [session |-> None, bundle |-> Some([pre_keys |-> <<>>])]}
    \cup {[session |-> Some([trust |-> trust, is_active |-> TRUE]),
           bundle |-> Some([pre_keys |-> <<1>>])] :
            trust \in {"Trusted", "Undecided", "Untrusted"}}
    \cup {[session |-> Some([trust |-> "Trusted", is_active |-> FALSE]),
           bundle |-> Some([pre_keys |-> <<1>>])]}

\* the local device's id; the ids of the user's other devices
LocalDeviceId == 1

OtherDeviceIds == DeviceIds \ {LocalDeviceId}

\* the devices the service may know of: the user's other devices and the
\* contact's devices, which are numbered independently of the user's
KnownDevices ==
    {<<CurrentUser, d>> : d \in OtherDeviceIds} \cup {<<Peer, d>> : d \in DeviceIds}

\* the devices with the ids, in the order of the ids
RECURSIVE DeviceList(_, _)
DeviceList(ids, from) ==
    IF from > MaxDevices THEN <<>>
    ELSE (IF from \in ids THEN <<Device(from, None)>> ELSE <<>>) \o DeviceList(ids, from + 1)

\* the pre-keys of a complete local bundle
PreKeyIds == 1..100

\* all of them, by id
AllPreKeys == [i \in PreKeyIds |-> i]

\* the service after initialize, with the devices as `situation` has them and
\* the device lists made of `listed`
EncryptionReady(situation, listed, pre_keys) ==
    /\ session_repo =
            [u \in Users |-> [d \in DeviceIds |->
                IF <<u, d>> \in KnownDevices /\ situation[<<u, d>>].session /= None
                THEN Some(Session(d, situation[<<u, d>>].session[1].trust,
                                  situation[<<u, d>>].session[1].is_active))
                ELSE None]]
    /\ user_device_repo =
            [u \in Users |->
                (IF u = CurrentUser
                 THEN <<Device(LocalDeviceId, Some(build_local_device_label))>>
                 ELSE <<>>)
                \o DeviceList({d \in DeviceIds : <<u, d>> \in listed}, 1)]
    /\ encryption_keys_repo =
            [local_device |-> Some([device_id |-> LocalDeviceId]), pre_keys |-> pre_keys]
    /\ user_device_service =
            [device_lists |-> <<>>,
             bundles |->
                [u \in Users |-> [d \in DeviceIds |->
                    IF <<u, d>> \in KnownDevices THEN situation[<<u, d>>].bundle
                    ELSE IF u = CurrentUser
                    THEN Some([pre_keys |-> AllPreKeys])
                    ELSE None]]]
    /\ unpublish_device_attempts = {}
    /\ repair_session_attempts = {}
    /\ encryption_calls = <<>>

\* no reducer, no Room, no history loading: the service on its own
ServiceAlone ==
    /\ ReducerAbsent
    /\ ClientAbsent
    /\ HistoryAbsent
    /\ data = <<>>
    /\ message_repo = <<>>
    /\ dispatched = <<>>
    /\ wire = <<>>
    /\ saved_settings = <<>>
    /\ calls = <<>>
    /\ id_provider = 0
    /\ time_provider = 0

InitEncrypt ==
    /\ ServiceAlone
    /\ \E situation \in [KnownDevices -> Situations] :
       \E listed \in SUBSET KnownDevices :
          EncryptionReady(situation, listed, AllPreKeys)

\* what may go wrong while a message is encrypted: one call, for one device
EncryptLucks ==
    {Luck(fails, device, trust, is_pre_key) :
        fails \in {{}, {"load_device_bundle"}, {"process_pre_key_bundle"},
                   {"process_pre_key_bundle", "publish_device_list"}, {"encrypt_key"}},
        device \in KnownDevices,
        trust \in {"Trusted", "Undecided", "Untrusted"},
        is_pre_key \in BOOLEAN}

\* one message is encrypted for the contact
NextEncrypt ==
    /\ encryption_calls = <<>>
    /\ \E luck \in EncryptLucks :
          encrypt_message(Peer, <<65>>, [i \in 1..KEY_SIZE |-> 1],
                          [i \in 1..NONCE_SIZE |-> 0], luck)

SpecEncrypt == InitEncrypt /\ [][NextEncrypt]_vars

----------------------------------------------------------------------------
(* Decryption in EncryptionDomainService *)

\* EncryptedPayload::get_key: the key addressed to the device id, if any
EncryptedPayload_get_key(payload, device_id) ==
    LET keys == SelectSeq(payload.keys, LAMBDA key : key.device_id = device_id)
    IN  IF keys = <<>> THEN None ELSE Some(Head(keys))

\* EncryptionService::decrypt_key: only the device of the user the data was
\* wrapped for unwraps it
EncryptionService_decrypt_key(reader, key) ==
    IF key.data.user_id = reader[1] /\ key.data.device_id = reader[2]
    THEN [ok |-> TRUE, bytes |-> key.data.wrapped]
    ELSE [ok |-> FALSE]

\* mutant: the size of the unwrapped data is not checked
decrypt_key_on_AnySize(reader, key, fails) ==
    LET unwrapped == EncryptionService_decrypt_key(reader, key)
    IN  IF fails \/ ~unwrapped.ok THEN [ok |-> FALSE, error |-> "Other"]
        ELSE [ok |-> TRUE, dek_and_mac |-> unwrapped.bytes]

\* decrypt_key (512-533) on the device `reader`
decrypt_key_on(reader, key, fails) ==
    LET unwrapped == EncryptionService_decrypt_key(reader, key)
    IN  IF fails \/ ~unwrapped.ok THEN [ok |-> FALSE, error |-> "Other"]
        ELSE IF Len(unwrapped.bytes) /= MAC_SIZE + KEY_SIZE
        THEN [ok |-> FALSE, error |-> "Other"]
        ELSE [ok |-> TRUE, dek_and_mac |-> unwrapped.bytes]

\* decrypt_payload (535-585) on the device `reader`, up to the message: the
\* key for the device is selected and unwrapped, the payload is opened with it
decrypt_payload_on(reader, payload, fails) ==
    LET key == EncryptedPayload_get_key(payload, reader[2])
    IN  IF key = None
        THEN [ok |-> FALSE, error |-> "NotEncryptedForThisDevice", key_failed |-> FALSE]
        ELSE
        LET dek_and_mac == decrypt_key_on(reader, key[1], fails)
        IN  IF ~dek_and_mac.ok
            THEN [ok |-> FALSE, error |-> "Other", key_failed |-> TRUE]
            ELSE
            LET message == open_message(dek_and_mac.dek_and_mac, payload.iv, payload.payload)
            IN  IF message.ok
                THEN [ok |-> TRUE, message |-> message.message, key |-> key[1]]
                ELSE [ok |-> FALSE, error |-> "Other", key_failed |-> FALSE]

----------------------------------------------------------------------------
(* The messages, keys and devices the round trip is run on *)

\* the messages of at most MaxPlain characters
Plaintexts == UNION {[1..n -> Chars] : n \in 0..MaxPlain}

\* a device with an active session: trusted, undecided or untrusted; or a
\* device that is given its session when the message is encrypted
SealSituations ==
    {[session |-> Some([trust |-> trust, is_active |-> TRUE]),
      bundle |-> Some([pre_keys |-> <<1>>])] : trust \in {"Trusted", "Untrusted"}}
    \cup {[session |-> None, bundle |-> Some([pre_keys |-> <<1>>])]}

InitSeal ==
    /\ ServiceAlone
    /\ \E situation \in [KnownDevices -> SealSituations] :
          EncryptionReady(situation, KnownDevices, AllPreKeys)

\* nothing fails; a session that is started is trusted or not, and the keys
\* are pre-key messages or not
SealLucks ==
    {Luck({}, <<Peer, 1>>, trust, is_pre_key) :
        trust \in {"Undecided", "Untrusted"}, is_pre_key \in BOOLEAN}

\* one message is encrypted for the contact, with some key and nonce
NextSeal ==
    /\ encryption_calls = <<>>
    /\ \E message \in Plaintexts, dek \in Keys, nonce \in Nonces, luck \in SealLucks :
          encrypt_message(Peer, message, dek, nonce, luck)

SpecSeal == InitSeal /\ [][NextSeal]_vars

----------------------------------------------------------------------------
(* Received keys: pre-keys, session repair and the cached body *)

\* Vec::sort_by_key(|key| key.id): a stable sort, each element goes to the
\* place after the elements that are smaller or equal and before it
sort_by_key(pre_keys) ==
    LET place == [i \in DOMAIN pre_keys |->
                    1 + Cardinality({j \in DOMAIN pre_keys :
                                        \/ pre_keys[j] < pre_keys[i]
                                        \/ pre_keys[j] = pre_keys[i] /\ j < i})]
    IN  [k \in DOMAIN pre_keys |-> pre_keys[CHOOSE i \in DOMAIN pre_keys : place[i] = k]]

\* (1..=100).filter_map(..) (469-476): the ids no local pre-key has, ascending
missing_pre_key_ids(pre_key_ids) ==
    LET missing == {idx \in 1..100 : idx \notin pre_key_ids}
    IN  [k \in 1..Cardinality(missing) |->
            CHOOSE idx \in missing : Cardinality({j \in missing : j < idx}) = k - 1]

\* EncryptionKeysRepository::get_local_device_bundle: the bundle of the local
\* device with the pre-keys as they are stored
EncryptionKeysRepository_get_local_device_bundle(repo) ==
    IF repo.local_device = None THEN None ELSE Some([pre_keys |-> repo.pre_keys])

\* mutant: the bundle is published as it is stored
publish_bundle_Unsorted(S, bundle, luck) ==
    IF FailsCall(luck, "publish_device_bundle") THEN [S |-> S, ok |-> FALSE]
    ELSE [S |-> [S EXCEPT
                    !.user_device_service.bundles[CurrentUser][
                        S.encryption_keys_repo.local_device[1].device_id] = Some(bundle),
                    !.published = Append(@, bundle)],
          ok |-> TRUE]

\* generate_and_publish_missing_pre_keys (502-508): the bundle is sorted and
\* published
publish_bundle(S, bundle, luck) ==
    IF FailsCall(luck, "publish_device_bundle") THEN [S |-> S, ok |-> FALSE]
    ELSE LET sorted == [bundle EXCEPT !.pre_keys = sort_by_key(@)]
         IN  [S |-> [S EXCEPT
                        !.user_device_service.bundles[CurrentUser][
                            S.encryption_keys_repo.local_device[1].device_id] =
                                Some(sorted),
                        !.published = Append(@, sorted)],
              ok |-> TRUE]

\* generate_and_publish_missing_pre_keys (456-510)
generate_and_publish_missing_pre_keys(S, luck) ==
    LET missing == missing_pre_key_ids(Range(S.encryption_keys_repo.pre_keys))
    IN  IF missing = <<>> THEN [S |-> S, ok |-> TRUE]
        ELSE IF FailsCall(luck, "generate_pre_keys_with_ids") THEN [S |-> S, ok |-> FALSE]
        ELSE
        LET Sa == [S EXCEPT !.encryption_keys_repo.pre_keys = @ \o missing,
                            !.generated = Append(@, missing)]
            bundle == EncryptionKeysRepository_get_local_device_bundle(Sa.encryption_keys_repo)
        IN  IF bundle = None THEN [S |-> Sa, ok |-> FALSE]
            ELSE publish_bundle(Sa, bundle[1], luck)

\* complete_session (616-650): a key transport message with a fresh key for
\* the sender's device
complete_session(S, local_device_id, sender_id, sender_device_id, luck) ==
    IF Fails(luck, "encrypt_key", sender_id, sender_device_id)
        \/ FailsCall(luck, "send_key_transport_message")
    THEN [S |-> S, ok |-> FALSE]
    ELSE [S |-> [S EXCEPT !.sent = Append(@,
                    [to |-> sender_id, device_id |-> local_device_id,
                     keys |-> <<sender_device_id>>])],
          ok |-> TRUE]

\* did_receive_pre_key_message (595-614): both are run, errors are logged
did_receive_pre_key_message(S, local_device_id, sender_id, sender_device_id, luck) ==
    complete_session(generate_and_publish_missing_pre_keys(S, luck).S,
                     local_device_id, sender_id, sender_device_id, luck).S

\* EncryptionService::decrypt_key on the first key of a session: the session
\* is built with the local pre-key the sender chose, which is used up; no
\* session can be built without it
UsesPreKey(reader, key) ==
    /\ key.is_pre_key
    /\ key.data.pre_key /= None
    /\ EncryptionService_decrypt_key(reader, key).ok

\* decrypt_payload (535-593): the store it leaves and what it returns
decrypt_payload(S, sender_id, payload, luck) ==
    LET local_device == S.encryption_keys_repo.local_device
    IN  IF local_device = None
        THEN [S |-> S, result |-> [ok |-> FALSE, error |-> "Other", key_failed |-> FALSE]]
        ELSE
        LET reader == <<CurrentUser, local_device[1].device_id>>
            key == EncryptedPayload_get_key(payload, reader[2])
            fails ==
                \/ FailsCall(luck, "decrypt_key")
                \/ /\ key /= None
                   /\ UsesPreKey(reader, key[1])
                   /\ key[1].data.pre_key[1] \notin Range(S.encryption_keys_repo.pre_keys)
            read == decrypt_payload_on(reader, payload, fails)
            Sa == IF key /= None /\ ~fails /\ UsesPreKey(reader, key[1])
                  THEN [S EXCEPT !.encryption_keys_repo.pre_keys =
                            SelectSeq(@, LAMBDA id : id /= key[1].data.pre_key[1])]
                  ELSE S
            pair == <<sender_id, payload.device_id>>
        IN  IF read.ok
            THEN [S |-> IF key[1].is_pre_key
                        THEN did_receive_pre_key_message(Sa, reader[2], sender_id,
                                                         payload.device_id, luck)
                        ELSE Sa,
                  result |-> [ok |-> TRUE, message |-> read.message]]
            ELSE IF read.key_failed /\ pair \notin Sa.repair_session_attempts
            THEN [S |-> start_session_with_device(
                            [Sa EXCEPT !.repair_session_attempts = @ \cup {pair}],
                            sender_id, payload.device_id, luck).S,
                  result |-> read]
            ELSE [S |-> Sa, result |-> read]

\* mutant: the error of decrypt_payload is returned as it is
cached_body_Never(repo, message_id, error) == [ok |-> FALSE, error |-> error]

\* decrypt_message (265-286): the body of the first part the repository has of
\* the message, when that is a message; otherwise the error
cached_body(repo, message_id, error) ==
    IF message_id = None THEN [ok |-> FALSE, error |-> error]
    ELSE LET messages == MessagesRepository_get(repo, message_id[1])
         IN  IF messages = <<>> THEN [ok |-> FALSE, error |-> error]
             ELSE IF messages[1].payload.kind /= "Message"
             THEN [ok |-> FALSE, error |-> error]
             ELSE [ok |-> TRUE, message |-> messages[1].payload.body.raw]

\* the messages of the chat with the user: the repository holds the chat with
\* the contact
ChatWith(user_id) == IF user_id = Peer THEN message_repo ELSE <<>>

\* decrypt_message (252-287)
decrypt_message(sender_id, message_id, payload, luck) ==
    \E done \in {decrypt_payload(Store, sender_id, payload, luck)} :
        Commit(done.S,
               [op |-> "decrypt_message", sender_id |-> sender_id,
                message_id |-> message_id, payload |-> payload,
                fails |-> luck.fails,
                decrypted |-> done.result,
                result |-> IF done.result.ok
                           THEN [ok |-> TRUE, message |-> done.result.message]
                           ELSE cached_body(ChatWith(sender_id), message_id,
                                            done.result.error)])

\* handle_received_key_transport_message (369-393)
handle_received_key_transport_message(sender_id, payload, luck) ==
    LET local_device == encryption_keys_repo.local_device
        call == [op |-> "handle_received_key_transport_message",
                 sender_id |-> sender_id, payload |-> payload,
                 fails |-> luck.fails]
    IN  IF local_device = None
        THEN Commit(Store, call @@ [result |-> [ok |-> FALSE]])
        ELSE
        LET reader == <<CurrentUser, local_device[1].device_id>>
            key == EncryptedPayload_get_key(payload, reader[2])
            fails ==
                \/ FailsCall(luck, "decrypt_key")
                \/ /\ key /= None
                   /\ UsesPreKey(reader, key[1])
                   /\ key[1].data.pre_key[1] \notin Range(encryption_keys_repo.pre_keys)
        IN  IF key = None THEN Commit(Store, call @@ [result |-> [ok |-> FALSE]])
            ELSE
            LET dek_and_mac == decrypt_key_on(reader, key[1], fails)
                Sa == IF ~fails /\ UsesPreKey(reader, key[1])
                      THEN [Store EXCEPT !.encryption_keys_repo.pre_keys =
                                SelectSeq(@, LAMBDA id : id /= key[1].data.pre_key[1])]
                      ELSE Store
            IN  IF ~dek_and_mac.ok THEN Commit(Sa, call @@ [result |-> [ok |-> FALSE]])
                ELSE IF key[1].is_pre_key
                THEN \E done \in {did_receive_pre_key_message(Sa, reader[2], sender_id,
                                                              payload.device_id, luck)} :
                        Commit(done, call @@ [result |-> [ok |-> TRUE]])
                ELSE Commit(Sa, call @@ [result |-> [ok |-> TRUE]])

\* initialize (62-129): the guard sets are cleared; a local bundle is made
\* where there is none; the local device is put on the published device list
\* and its bundle is published, where missing
initialize(luck) ==
    LET cleared == [Store EXCEPT !.unpublish_device_attempts = {},
                                 !.repair_session_attempts = {}]
        call == [op |-> "initialize"]
    IN  IF encryption_keys_repo.local_device = None
            /\ FailsCall(luck, "generate_local_encryption_bundle")
        THEN Commit(cleared, call @@ [result |-> [ok |-> FALSE]])
        ELSE
        LET Sa == IF encryption_keys_repo.local_device /= None THEN cleared
                  ELSE [cleared EXCEPT
                            !.encryption_keys_repo =
                                [local_device |-> Some([device_id |-> LocalDeviceId]),
                                 pre_keys |-> AllPreKeys]]
            device_id == Sa.encryption_keys_repo.local_device[1].device_id
            bundle == EncryptionKeysRepository_get_local_device_bundle(
                            Sa.encryption_keys_repo)
            devices == user_device_repo[CurrentUser]
            listed == device_id \in Range(DeviceIdsOf(devices))
            Sb == IF listed THEN Sa
                  ELSE [Sa EXCEPT !.user_device_service.device_lists =
                            Append(@, Append(devices,
                                Device(device_id, Some(build_local_device_label))))]
        IN  IF ~listed /\ FailsCall(luck, "publish_device_list")
            THEN Commit(Sa, call @@ [result |-> [ok |-> FALSE]])
            ELSE IF Fails(luck, "load_device_bundle", CurrentUser, device_id)
            THEN Commit(Sb, call @@ [result |-> [ok |-> FALSE]])
            ELSE IF user_device_service.bundles[CurrentUser][device_id] /= None
            THEN Commit(Sb, call @@ [result |-> [ok |-> TRUE]])
            ELSE IF FailsCall(luck, "publish_device_bundle")
            THEN Commit(Sb, call @@ [result |-> [ok |-> FALSE]])
            ELSE Commit([Sb EXCEPT
                            !.user_device_service.bundles[CurrentUser][device_id] = bundle,
                            !.published = Append(@, bundle[1])],
                        call @@ [result |-> [ok |-> TRUE]])

----------------------------------------------------------------------------
(* The payloads, chats and devices received messages are decrypted with *)

\* the message, key and nonce of the payloads that are received
ReceivedSealed == seal_message(<<65, 233>>, [i \in 1..KEY_SIZE |-> i],
                               [i \in 1..NONCE_SIZE |-> 0])

\* the local pre-key a pre-key message of the contact is built on
ChosenPreKey == 7

\* a key as it is sent in a session that was acknowledged; the first key of a
\* session, which is built on the chosen pre-key; a later key of a session
\* that was not acknowledged yet, whose pre-key was used when the first came
PreKeyUses ==
    {[is_pre_key |-> FALSE, pre_key |-> None],
     [is_pre_key |-> TRUE, pre_key |-> Some(ChosenPreKey)],
     [is_pre_key |-> TRUE, pre_key |-> None]}

\* a key marked with the device id, wrapped for the device of the user
ReceivedKey(marked, user_id, device_id, wrapped, use) ==
    [device_id |-> marked, is_pre_key |-> use.is_pre_key,
     data |-> [user_id |-> user_id, device_id |-> device_id, wrapped |-> wrapped,
               pre_key |-> use.pre_key]]

\* a payload of the sender's device: as it should be; with a key for another
\* device only; with a key the local device cannot unwrap; with a key that
\* unwraps to the key without the tag; with a ciphertext that was changed
ReceivedPayload(device_id, kind, use) ==
    [device_id |-> device_id,
     iv |-> [i \in 1..NONCE_SIZE |-> 0],
     keys |->
        IF kind = "other_device"
        THEN <<ReceivedKey(2, CurrentUser, 2, ReceivedSealed.dek_and_mac, use)>>
        ELSE IF kind = "other_user"
        THEN <<ReceivedKey(LocalDeviceId, Peer, LocalDeviceId,
                           ReceivedSealed.dek_and_mac, use)>>
        ELSE IF kind = "short"
        THEN <<ReceivedKey(LocalDeviceId, CurrentUser, LocalDeviceId,
                           SubSeq(ReceivedSealed.dek_and_mac, 1, KEY_SIZE), use)>>
        ELSE <<ReceivedKey(LocalDeviceId, CurrentUser, LocalDeviceId,
                           ReceivedSealed.dek_and_mac, use)>>,
     payload |->
        IF kind = "changed"
        THEN [ReceivedSealed.payload EXCEPT ![1] = (@ + 1) % 256]
        ELSE ReceivedSealed.payload]

PayloadKinds == {"good", "other_device", "other_user", "short", "changed"}

\* the chat with the contact as the repository has it: empty; with the message
\* as it was decrypted before; with the error of a failed decryption; with the
\* error of a failed decryption and, behind it, the message as it was
\* decrypted later
CachedChats ==
    {<<>>,
     OneMessage,
     <<MessageLikeAt(Id1, Some(S1), None, "b", 1, PayloadError("x"))>>,
     <<MessageLikeAt(Id1, Some(S1), None, "b", 1, PayloadError("x"))>> \o OneMessage}

\* the local pre-keys: all of them, in the order of the ids or not; without
\* the one the contact chose; without another one
StoredPreKeys ==
    {AllPreKeys,
     SubSeq(AllPreKeys, 2, 100) \o <<1>>,
     SelectSeq(AllPreKeys, LAMBDA id : id /= ChosenPreKey),
     SelectSeq(AllPreKeys, LAMBDA id : id /= 3)}

\* the service with the chat, on its own
ServiceWithChat(chat) ==
    /\ ReducerAbsent
    /\ ClientAbsent
    /\ HistoryAbsent
    /\ data = <<>>
    /\ message_repo = chat
    /\ dispatched = <<>>
    /\ wire = <<>>
    /\ saved_settings = <<>>
    /\ calls = <<>>
    /\ id_provider = 0
    /\ time_provider = 0

\* every known device has a bundle and an active, trusted session
AllTrusted ==
    [device \in KnownDevices |->
        [session |-> Some([trust |-> "Trusted", is_active |-> TRUE]),
         bundle |-> Some([pre_keys |-> <<1>>])]]

InitReceive ==
    /\ \E chat \in CachedChats : ServiceWithChat(chat)
    /\ \E pre_keys \in StoredPreKeys : EncryptionReady(AllTrusted, KnownDevices, pre_keys)

\* what may go wrong while a payload is processed
ReceiveLucks ==
    {Luck(fails, <<Peer, 1>>, "Undecided", FALSE) :
        fails \in {{}, {"decrypt_key"}, {"generate_pre_keys_with_ids"},
                   {"publish_device_bundle"}, {"send_key_transport_message"}}}

\* Most payloads that are processed in a run
MaxReceived == 1

\* a message or a key transport message of the contact's device 1 is processed
NextReceive ==
    /\ Len(encryption_calls) < MaxReceived
    /\ \E kind \in PayloadKinds, use \in PreKeyUses, luck \in ReceiveLucks :
          \/ \E message_id \in {None, Some(Id1), Some(Id2)} :
                decrypt_message(Peer, message_id,
                                ReceivedPayload(1, kind, use), luck)
          \/ handle_received_key_transport_message(
                Peer, ReceivedPayload(1, kind, use), luck)

SpecReceive == InitReceive /\ [][NextReceive]_vars

----------------------------------------------------------------------------
(* The runs the retry guards are watched on *)

\* a known device has no session yet; its bundle is on the server or not
GuardSituations ==
    {[session |-> None, bundle |-> None],
     [session |-> None, bundle |-> Some([pre_keys |-> <<1>>])]}

InitGuards ==
    /\ ServiceAlone
    /\ \E situation \in [KnownDevices -> GuardSituations] :
          EncryptionReady(situation, KnownDevices, AllPreKeys)

\* nothing fails, or the session with the user's other device cannot be set
\* up, or no key can be unwrapped
GuardLucks ==
    {Luck(fails, <<CurrentUser, 2>>, "Trusted", FALSE) :
        fails \in {{}, {"process_pre_key_bundle"}, {"decrypt_key"}}}

\* Most operations in a run
MaxGuardCalls == 3

\* a message is encrypted for the contact, a message of a known device is
\* decrypted, or the service is initialized again
NextGuards ==
    /\ Len(encryption_calls) < MaxGuardCalls
    /\ \E luck \in GuardLucks :
          \/ encrypt_message(Peer, <<65>>, [i \in 1..KEY_SIZE |-> 1],
                             [i \in 1..NONCE_SIZE |-> 0], luck)
          \/ \E sender \in KnownDevices, kind \in {"good", "other_user"} :
                decrypt_message(sender[1], None,
                    ReceivedPayload(sender[2], kind, [is_pre_key |-> FALSE, pre_key |-> None]),
                    luck)
          \/ initialize(luck)

SpecGuards == InitGuards /\ [][NextGuards]_vars

----------------------------------------------------------------------------
(* Received device lists (handle_received_device_list) *)

\* mutant: the local device is announced alone
updated_device_list_Alone(devices, device_id) ==
    <<Device(device_id, Some(build_local_device_label))>>

\* handle_received_device_list (435-439): the received list with the local
\* device behind it
updated_device_list(devices, device_id) ==
    Append(devices, Device(device_id, Some(build_local_device_label)))

\* handle_received_device_list (395-445); `publishing` is the list that is
\* handed to publish_device_list, if any
handle_received_device_list(user_id, devices, luck) ==
    LET call == [op |-> "handle_received_device_list", user_id |-> user_id,
                 device_list |-> devices]
        Sa == [Store EXCEPT !.user_device_repo[user_id] = devices]
        current_device == encryption_keys_repo.local_device
    IN  IF user_id /= CurrentUser
        THEN Commit(Sa, call @@ [publishing |-> <<>>, result |-> [ok |-> TRUE]])
        ELSE IF current_device = None
        THEN Commit(Sa, call @@ [publishing |-> <<>>, result |-> [ok |-> TRUE]])
        ELSE IF current_device[1].device_id \in Range(DeviceIdsOf(devices))
        THEN Commit(Sa, call @@ [publishing |-> <<>>, result |-> [ok |-> TRUE]])
        ELSE
        LET updated == updated_device_list(devices, current_device[1].device_id)
        IN  IF FailsCall(luck, "publish_device_list")
            THEN Commit(Sa, call @@ [publishing |-> <<updated>>,
                                     result |-> [ok |-> FALSE]])
            ELSE Commit([Sa EXCEPT !.user_device_service.device_lists =
                                        Append(@, updated)],
                        call @@ [publishing |-> <<updated>>, result |-> [ok |-> TRUE]])

\* the device lists that are received: of no, one or two devices, in either
\* order
ReceivedDeviceLists ==
    {<<>>} \cup {<<Device(d, None)>> : d \in DeviceIds}
    \cup {<<Device(d, None), Device(e, None)>> : d, e \in DeviceIds}

\* the service with or without a local device, knowing no device yet
InitDevices ==
    /\ ServiceAlone
    /\ session_repo = [u \in Users |-> [d \in DeviceIds |-> None]]
    /\ user_device_repo = [u \in Users |-> <<>>]
    /\ encryption_keys_repo \in
            {[local_device |-> None, pre_keys |-> <<>>],
             [local_device |-> Some([device_id |-> LocalDeviceId]),
              pre_keys |-> AllPreKeys]}
    /\ user_device_service =
            [device_lists |-> <<>>,
             bundles |-> [u \in Users |-> [d \in DeviceIds |-> None]]]
    /\ unpublish_device_attempts = {}
    /\ repair_session_attempts = {}
    /\ encryption_calls = <<>>

\* Most device lists received in a run
MaxDeviceLists == 3

\* a device list of the user or of the contact is received; the server takes
\* the list that is published or not
NextDevices ==
    /\ Len(encryption_calls) < MaxDeviceLists
    /\ \E user_id \in Users, devices \in ReceivedDeviceLists :
       \E luck \in {Luck(fails, <<Peer, 1>>, "Trusted", FALSE) :
                        fails \in {{}, {"publish_device_list"}}} :
          handle_received_device_list(user_id, devices, luck)

SpecDevices == InitDevices /\ [][NextDevices]_vars

----------------------------------------------------------------------------
(* The stanzas the classification of payloads is run on *)

\* the ids the elements of a stanza point to, one for each kind of element
ReactionsTarget == RemoteId(<<"1">>)

FasteningTarget == RemoteId(<<"2">>)

ReplaceTarget == RemoteId(<<"3">>)

ReceivedTarget == RemoteId(<<"4">>)

DisplayedTarget == RemoteId(<<"5">>)

\* stanzas with every choice of elements: an error, reactions, a fastening
\* that retracts or not, a replace element, the two markers, a body, and
\* attachments that are none, one with a url or one without
ClassifiedStanzas ==
    {[Stanza(Some(<<"9">>), "b", error, reactions, body) EXCEPT
            !.fastening = fastening, !.replace = replace,
            !.received_marker = received, !.displayed_marker = displayed,
            !.oob_attachments = oobs] :
        error \in {None, Some("E")},
        reactions \in {None, Some([id |-> ReactionsTarget, reactions |-> <<"x">>])},
        body \in {None, Some("A")},
        fastening \in {None, Some([id |-> FasteningTarget, retract |-> TRUE]),
                       Some([id |-> FasteningTarget, retract |-> FALSE])},
        replace \in {None, Some(ReplaceTarget)},
        received \in {None, Some([id |-> ReceivedTarget])},
        displayed \in {None, Some([id |-> DisplayedTarget])},
        oobs \in {<<>>, <<"f0">>, <<"">>}}

\* an archive of one such stanza; nothing else is running
InitClassify ==
    /\ ReducerAbsent
    /\ ClientAbsent
    /\ EncryptionAbsent
    /\ data = <<>>
    /\ message_repo = <<>>
    /\ dispatched = <<>>
    /\ wire = <<>>
    /\ saved_settings = <<>>
    /\ calls = <<>>
    /\ id_provider = 0
    /\ time_provider = 0
    /\ ctx = <<>>
    /\ local_room_settings = <<>>
    /\ \E stanza \in ClassifiedStanzas :
          archive = <<ArchivedMessage(S1, Some(1), Some(stanza))>>

\* MessageParser::parse_mam_message on the archived stanza
parse_archived_message ==
    /\ calls = <<>>
    /\ calls' = <<[op |-> "parse_mam_message", result |-> parse_mam_message(archive[1])]>>
    /\ UNCHANGED <<data, message_repo, dispatched, wire, saved_settings, id_provider,
                   time_provider>>
    /\ UNCHANGED <<reducer_vars, history_vars, encryption_vars, client_vars>>

NextClassify == parse_archived_message

SpecClassify == InitClassify /\ [][NextClassify]_vars

----------------------------------------------------------------------------
(* The connector of the JavaScript binding (bindings/prose-sdk-js,
   connector/strophe_js.rs): Connector::connect, Connection::disconnect and
   the EventHandler the transport calls. Every connection has its own
   JSConnection and its own two Intervals. *)

MaxConnections == 2
MaxDelivered == 3

ConnectionIds == 1..MaxConnections

\* util::Interval: a periodic timer that calls back until the value is dropped
Interval_new(event) == [event |-> event]

\* a connect call that has not started: no local holds an Interval yet
IdleConnect ==
    [pc |-> "idle", ping_interval |-> None, timeout_interval |-> None,
     result |-> None, disconnected |-> FALSE, dropped |-> FALSE]

\* the Intervals of connection k that are held by a local of connect or by a
\* field of the Connection: the ones that still call back
LiveIntervals(k) ==
    {interval \in {Interval_new("PingTimer"), Interval_new("TimeoutTimer")} :
        \/ Some(interval) \in {client_calls[k].ping_interval,
                               client_calls[k].timeout_interval}
        \/ Some(interval) \in {ping_interval[k], timeout_interval[k]}}

ConnectionEvent(k, event) == [connection |-> k, event |-> event]

\* the part of the connector the other variables are left alone by
ConnectorOnly ==
    UNCHANGED <<reducer_vars, room_vars, history_vars, encryption_vars,
                user_profile_repo, connected_rooms, entered, is_observing_rooms,
                loaded>>

\* Connector::connect up to the await (99-129): the connection is provided,
\* both Intervals are started and held by locals, the handler is set
Connector_connect(k) ==
    /\ client_calls[k].pc = "idle"
    /\ client' = [client EXCEPT ![k] = "connecting"]
    /\ client_calls' =
            [client_calls EXCEPT
                ![k] = [@ EXCEPT !.pc = "connect",
                                 !.ping_interval = Some(Interval_new("PingTimer")),
                                 !.timeout_interval =
                                        Some(Interval_new("TimeoutTimer"))]]
    /\ UNCHANGED <<ping_interval, timeout_interval, delivered>>
    /\ ConnectorOnly

\* Connector::connect after the await (130-136): an error returns and drops
\* the locals; otherwise the Intervals move into the returned Connection
Connector_connect_returns(k, connected) ==
    /\ client_calls[k].pc = "connect"
    /\ IF connected
       THEN /\ client' = [client EXCEPT ![k] = "open"]
            /\ ping_interval' =
                    [ping_interval EXCEPT ![k] = client_calls[k].ping_interval]
            /\ timeout_interval' =
                    [timeout_interval EXCEPT ![k] = client_calls[k].timeout_interval]
       ELSE /\ client' = [client EXCEPT ![k] = "closed"]
            /\ UNCHANGED <<ping_interval, timeout_interval>>
    /\ client_calls' =
            [client_calls EXCEPT
                ![k] = [@ EXCEPT !.pc = "done",
                                 !.ping_interval = None,
                                 !.timeout_interval = None,
                                 !.result = Some(IF connected THEN "Ok" ELSE "Err")]]
    /\ UNCHANGED delivered
    /\ ConnectorOnly

\* the closure of an Interval (106-109, 116-119): the handler is called with
\* the timer's event for as long as the Interval lives
Interval_fires(k, event) ==
    /\ Interval_new(event) \in LiveIntervals(k)
    /\ Len(delivered) < MaxDelivered
    /\ delivered' = Append(delivered, ConnectionEvent(k, event))
    /\ UNCHANGED <<client, ping_interval, timeout_interval, client_calls>>
    /\ ConnectorOnly

\* the Connection connect returned is held by its owner
ConnectionHeld(k) ==
    /\ client_calls[k].result = Some("Ok")
    /\ ~client_calls[k].dropped

\* mutant: disconnect stops the ping timer only
Connection_disconnect_KeepsWatchdog(k) ==
    /\ ConnectionHeld(k)
    /\ ping_interval' = [ping_interval EXCEPT ![k] = None]
    /\ UNCHANGED timeout_interval
    /\ client' = [client EXCEPT ![k] = "closed"]
    /\ client_calls' = [client_calls EXCEPT ![k] = [@ EXCEPT !.disconnected = TRUE]]
    /\ UNCHANGED delivered
    /\ ConnectorOnly

\* Connection::disconnect (164-168): both fields are replaced by None, which
\* drops the Intervals, and the JSConnection is disconnected
Connection_disconnect(k) ==
    /\ ConnectionHeld(k)
    /\ ping_interval' = [ping_interval EXCEPT ![k] = None]
    /\ timeout_interval' = [timeout_interval EXCEPT ![k] = None]
    /\ client' = [client EXCEPT ![k] = "closed"]
    /\ client_calls' = [client_calls EXCEPT ![k] = [@ EXCEPT !.disconnected = TRUE]]
    /\ UNCHANGED delivered
    /\ ConnectorOnly

\* the owner drops the Connection (140-144): its fields are dropped with it
Connection_drop(k) ==
    /\ ConnectionHeld(k)
    /\ ping_interval' = [ping_interval EXCEPT ![k] = None]
    /\ timeout_interval' = [timeout_interval EXCEPT ![k] = None]
    /\ client_calls' = [client_calls EXCEPT ![k] = [@ EXCEPT !.dropped = TRUE]]
    /\ UNCHANGED <<client, delivered>>
    /\ ConnectorOnly

\* EventHandler::handle_disconnect (174-182): the transport lost the
\* connection; the handler is called with the EventHandler's own Connection,
\* whose two fields are None (122-125, 147-153)
EventHandler_handle_disconnect(k) ==
    /\ client[k] = "open"
    /\ Len(delivered) < MaxDelivered
    /\ client' = [client EXCEPT ![k] = "closed"]
    /\ delivered' = Append(delivered, ConnectionEvent(k, "Disconnected"))
    /\ UNCHANGED <<ping_interval, timeout_interval, client_calls>>
    /\ ConnectorOnly

\* EventHandler::handle_stanza (185-193)
EventHandler_handle_stanza(k) ==
    /\ client[k] = "open"
    /\ Len(delivered) < MaxDelivered
    /\ delivered' = Append(delivered, ConnectionEvent(k, "Stanza"))
    /\ UNCHANGED <<client, ping_interval, timeout_interval, client_calls>>
    /\ ConnectorOnly

\* no reducer, no Room, no history loading and no encryption service
MessagingAbsent ==
    /\ ReducerAbsent
    /\ HistoryAbsent
    /\ EncryptionAbsent
    /\ data = <<>>
    /\ message_repo = <<>>
    /\ dispatched = <<>>
    /\ wire = <<>>
    /\ saved_settings = <<>>
    /\ calls = <<>>
    /\ id_provider = 0
    /\ time_provider = 0

InitConnector ==
    /\ MessagingAbsent
    /\ user_profile_repo = <<>>
    /\ client = [k \in ConnectionIds |-> "none"]
    /\ ping_interval = [k \in ConnectionIds |-> None]
    /\ timeout_interval = [k \in ConnectionIds |-> None]
    /\ delivered = <<>>
    /\ connected_rooms = <<>>
    /\ entered = <<>>
    /\ is_observing_rooms = FALSE
    /\ loaded = <<>>
    /\ client_calls = [k \in ConnectionIds |-> IdleConnect]

NextConnector ==
    \E k \in ConnectionIds :
        \/ Connector_connect(k)
        \/ \E connected \in BOOLEAN : Connector_connect_returns(k, connected)
        \/ \E event \in {"PingTimer", "TimeoutTimer"} : Interval_fires(k, event)
        \/ Connection_disconnect(k)
        \/ Connection_drop(k)
        \/ EventHandler_handle_disconnect(k)
        \/ EventHandler_handle_stanza(k)

SpecConnector == InitConnector /\ [][NextConnector]_vars

----------------------------------------------------------------------------
(* Messages with their senders: Room::load_messages_with_ids (room.rs
   349-355) and the rooms, participants and profiles it is run on *)

\* MessagesRepository::get_all: "all parts (MessageLike) that make up all
\* messages in `ids`. Sorted chronologically."
MessagesRepository_get_all(repo, ids) ==
    Chronological(
        SelectSeq(repo,
            LAMBDA row :
                \E k \in DOMAIN ids :
                    \E n \in DOMAIN MessagesRepository_get(repo, ids[k]) :
                        MessagesRepository_get(repo, ids[k])[n] = row))

\* load_messages_with_ids (349-355): the parts of the messages are read from
\* the repository, reduced, and handed out with their senders
load_messages_with_ids(c, ids, ok) ==
    /\ CanStart(c)
    /\ LET messages == MessagesRepository_get_all(message_repo, ids)
           reduced  == add_sender(reducing_messages(messages))
           frame    == [op |-> "load_messages_with_ids", pc |-> "done",
                        ret |-> IF ok THEN "Ok" ELSE "Err",
                        appended |-> <<>>, emitted |-> <<>>, ids |-> ids,
                        messages |-> IF ok THEN messages ELSE <<>>,
                        message_dtos |-> IF ok THEN reduced.message_dtos ELSE <<>>,
                        resolved |-> IF ok THEN reduced.resolved ELSE <<>>]
       IN  calls' = [calls EXCEPT ![c] = frame]
    /\ UNCHANGED <<data, message_repo, dispatched, wire, saved_settings, id_provider,
                   time_provider>>
    /\ UNCHANGED <<reducer_vars, history_vars, encryption_vars, client_vars>>

UserA == <<"a", "@", "p">>

UserB == <<"b", "@", "p">>

OccupantA == OccupantParticipant(<<"r", "/", "a">>)

OccupantB == OccupantParticipant(<<"r", "/", "b">>)

\* the participants the room may know: an occupant and a user, each with or
\* without a live name and a real id; the occupant b is never known
ParticipantInfos == [name : {None, Some(<<"L", "i", "v", "e">>)},
                     real_id : {None, Some(UserA)}]

ParticipantLists ==
    UNION {[ids -> ParticipantInfos] : ids \in SUBSET {OccupantA, UserParticipant(UserB)}}

\* the profiles: none, a profile with a name, a lookup that fails
Profiles ==
    { [ok |-> TRUE, name |-> Some(<<"F", "u", "l", "l">>)],
      [ok |-> FALSE, name |-> Some(<<"F", "u", "l", "l">>)] }

ProfileRepositories ==
    UNION {[ids -> Profiles] : ids \in SUBSET {UserA, UserB}}

Id3 == MessageLikeId_new(Some(<<"3">>), <<"u">>)

\* a room's rows: three messages, one by each sender, and reactions to the
\* first by all of them
SenderRows ==
    << MessageLikeAt(Id1, Some(S1), None, OccupantA, 1, PayloadMessage("A", <<>>)),
       MessageLikeAt(Id2, Some(S2), None, OccupantB, 2, PayloadMessage("B", <<>>)),
       MessageLikeAt(Id3, None, None, UserParticipant(UserB), 3, PayloadMessage("C", <<>>)),
       MessageLikeAt(IdGenerated, None, Some(RemoteId(Id1)), OccupantA, 4,
                     PayloadReaction(<<"x">>)),
       MessageLikeAt(IdGenerated, None, Some(ServerId(S1)), OccupantB, 5,
                     PayloadReaction(<<"x", "y">>)),
       MessageLikeAt(IdGenerated, None, Some(RemoteId(Id1)), UserParticipant(UserB), 6,
                     PayloadReaction(<<"y">>)) >>

\* the archive of the room: a message of each sender and a reaction
SenderArchive ==
    LET stanzas ==
            << Some(Stanza(Some(<<"1">>), OccupantA, None, None, Some("A"))),
               Some(Stanza(Some(<<"2">>), OccupantB, None, None, Some("B"))),
               Some(Stanza(None, UserParticipant(UserB), None,
                           Some([id |-> RemoteId(Id1), reactions |-> <<"x">>]), None)),
               Some(Stanza(Some(<<"3">>), OccupantA, None, None, Some("C"))) >>
    IN  [n \in DOMAIN stanzas |-> ArchivedMessage(ServerIdAt(n), Some(n), stanzas[n])]

\* the ids load_messages_with_ids is asked for
IdLists == {<<Id2, Id1>>, <<Id1, Id2, Id3>>, <<Id3, IdUnknown>>}

InitSenders ==
    /\ ReducerAbsent
    /\ EncryptionAbsent
    /\ \E participants \in ParticipantLists :
          data = [room_id |-> [kind |-> "Muc"], type |-> "Group",
                  settings |-> SyncedRoomSettings(
                                   Some([id |-> Id1, timestamp |-> 1]), FALSE),
                  needs_update_statistics |-> FALSE,
                  participants |-> participants]
    /\ user_profile_repo \in ProfileRepositories
    /\ client = "none"
    /\ ping_interval = <<>>
    /\ timeout_interval = <<>>
    /\ delivered = <<>>
    /\ connected_rooms = <<>>
    /\ entered = <<>>
    /\ is_observing_rooms = FALSE
    /\ loaded = <<>>
    /\ client_calls = <<>>
    /\ archive = SenderArchive
    /\ ctx = [config |-> [message_page_size |-> 2, max_message_pages_to_load |-> 2],
              connection_timestamp |-> None]
    /\ local_room_settings = <<>>
    /\ message_repo = SenderRows
    /\ dispatched = <<>>
    /\ wire = <<>>
    /\ saved_settings = <<>>
    /\ calls = [c \in CallIds |-> IdleFrame]
    /\ id_provider = 0
    /\ time_provider = FirstNow

NextSenders ==
    \E c \in CallIds :
        \/ PreviousReturned(c)
              /\ \E ids \in IdLists : \E ok \in BOOLEAN :
                    load_messages_with_ids(c, ids, ok)
        \/ PreviousReturned(c) /\ load_latest_messages(c)
        \/ \E ok \in BOOLEAN : load_page(c, ok)
        \/ get_messages_targeting(c)
        \/ append_loaded(c)

SpecSenders == InitSenders /\ [][NextSenders]_vars

----------------------------------------------------------------------------
(* The synced settings under concurrent calls: mark_as_read and
   set_encryption_enabled beside messages that arrive *)

\* Room::set_encryption_enabled (451-454), up to the settings update
set_encryption_enabled(c, enabled) ==
    /\ CanStart(c)
    /\ calls' = [calls EXCEPT ![c] =
                    [op |-> "set_encryption_enabled", pc |-> "update_settings",
                     ret |-> "Pending", handler |-> "set_encryption_enabled",
                     enabled |-> enabled,
                     updated_settings |-> None,
                     updated_message_ids |-> <<>>,
                     appended |-> <<>>, emitted |-> <<>>]]
    /\ UNCHANGED <<data, message_repo, dispatched, wire, saved_settings, id_provider,
                   time_provider>>
    /\ UNCHANGED <<reducer_vars, history_vars, encryption_vars, client_vars>>

\* the messages that arrive while the room is open, oldest first
Inbound ==
    << MessageLikeAt(Id2, Some(S2), None, "b", 2, PayloadMessage("B", <<>>)),
       MessageLikeAt(IdUnknown, None, None, "b", 3, PayloadMessage("C", <<>>)) >>

\* MessagesRepository::append, called for the next message that arrives
message_received ==
    /\ \E n \in DOMAIN Inbound :
          /\ Len(message_repo) = n
          /\ message_repo' = Append(message_repo, Inbound[n])
    /\ UNCHANGED <<data, dispatched, wire, saved_settings, calls, id_provider,
                   time_provider>>
    /\ UNCHANGED <<reducer_vars, history_vars, encryption_vars, client_vars>>

\* a Room with one message or none, nothing read yet
InitRead ==
    /\ ReducerAbsent
    /\ ClientAbsent
    /\ message_repo \in {<<>>, OneMessage}
    /\ \E room \in Rooms : \E encryption_enabled \in BOOLEAN :
          data = [room_id |-> room.room_id, type |-> room.type,
                  settings |-> SyncedRoomSettings(None, encryption_enabled),
                  needs_update_statistics |-> FALSE]
    /\ dispatched = <<>>
    /\ wire = <<>>
    /\ saved_settings = <<>>
    /\ calls = [c \in CallIds |-> IdleFrame]
    /\ id_provider = 0
    /\ time_provider = FirstNow
    /\ HistoryAbsent
    /\ EncryptionAbsent

NextRead ==
    \/ \E c \in CallIds :
          \/ mark_as_read(c)
          \/ \E enabled \in BOOLEAN : set_encryption_enabled(c, enabled)
          \/ update_synced_settings(c)
          \/ \E ok \in BOOLEAN : save_settings(c, ok)
    \/ message_received

SpecRead == InitRead /\ [][NextRead]_vars

----------------------------------------------------------------------------
(* Rooms of the XMPP client: Client::connect_to_room_if_needed (client_muc.rs
   261-301) and RoomsService::start_observing_rooms (rooms_service.rs 30-38),
   called concurrently *)

\* Calls of the two operations in one run
MaxRoomCalls == 3

RoomCallIds == 1..MaxRoomCalls

RoomJids == {"room1@conf", "room2@conf"}

\* the features of a RoomInfo, as far as into_room asks for them
RoomInfo(group, private_channel, public_channel) ==
    [can_act_as_group |-> group,
     can_act_as_private_channel |-> private_channel,
     can_act_as_public_channel |-> public_channel]

\* what the disco query of enter_room may answer
RoomInfos ==
    {RoomInfo(TRUE, TRUE, FALSE), RoomInfo(FALSE, FALSE, TRUE), RoomInfo(FALSE, FALSE, FALSE)}

\* Room::pending
Room_pending(room_jid) == [kind |-> "Pending", jid |-> room_jid]

\* PendingRoom::into_room (mod.rs 48-67): the first kind the features allow
into_room(pending_room, info) ==
    [kind |-> IF info.can_act_as_group THEN "Group"
              ELSE IF info.can_act_as_private_channel THEN "PrivateChannel"
              ELSE IF info.can_act_as_public_channel THEN "PublicChannel"
              ELSE "Generic",
     jid  |-> pending_room.jid]

IdleRoomCall == [op |-> "none", pc |-> "idle", room_jid |-> None, ret |-> None]

\* everything but the rooms, the observing flag and the calls on them
RoomsOnly ==
    UNCHANGED <<reducer_vars, room_vars, history_vars, encryption_vars,
                user_profile_repo, client, ping_interval, timeout_interval, delivered>>

\* connect_to_room_if_needed, the check under the read lock (267-269)
connect_to_room_if_needed(k, room_jid) ==
    /\ client_calls[k].pc = "idle"
    /\ client_calls' =
            [client_calls EXCEPT
                ![k] = IF connected_rooms[room_jid] /= None
                       THEN [op |-> "connect_to_room_if_needed", pc |-> "done",
                             room_jid |-> Some(room_jid), ret |-> Some("Ok")]
                       ELSE [op |-> "connect_to_room_if_needed", pc |-> "insert",
                             room_jid |-> Some(room_jid), ret |-> None]]
    /\ UNCHANGED <<connected_rooms, entered, is_observing_rooms, loaded>>
    /\ RoomsOnly

\* the PendingRoom is inserted under the write lock (273-276) and enter_room
\* is called (279)
insert_pending_room(k) ==
    /\ client_calls[k].pc = "insert"
    /\ connected_rooms' =
            [connected_rooms EXCEPT
                ![client_calls[k].room_jid[1]] = Some(Room_pending(client_calls[k].room_jid[1]))]
    /\ entered' = Append(entered, client_calls[k].room_jid[1])
    /\ client_calls' = [client_calls EXCEPT ![k].pc = "enter"]
    /\ UNCHANGED <<is_observing_rooms, loaded>>
    /\ RoomsOnly

\* enter_room returns (279-286) and the write-locked block behind it runs
\* (288-300): an error removes the entry; otherwise the entry is taken out,
\* and put back converted if it was a PendingRoom, else the call bails
enter_room_returns(k, room_info) ==
    LET room_jid == client_calls[k].room_jid[1]
    IN  /\ client_calls[k].pc = "enter"
        /\ IF room_info = None
           THEN /\ connected_rooms' = [connected_rooms EXCEPT ![room_jid] = None]
                /\ client_calls' =
                        [client_calls EXCEPT ![k].pc = "done", ![k].ret = Some("Err")]
           ELSE IF connected_rooms[room_jid] /= None
                   /\ connected_rooms[room_jid][1].kind = "Pending"
           THEN /\ connected_rooms' =
                        [connected_rooms EXCEPT
                            ![room_jid] =
                                Some(into_room(connected_rooms[room_jid][1], room_info[1]))]
                /\ client_calls' =
                        [client_calls EXCEPT ![k].pc = "done", ![k].ret = Some("Ok")]
           ELSE /\ connected_rooms' = [connected_rooms EXCEPT ![room_jid] = None]
                /\ client_calls' =
                        [client_calls EXCEPT ![k].pc = "done", ![k].ret = Some("Err")]
        /\ UNCHANGED <<entered, is_observing_rooms, loaded>>
        /\ RoomsOnly

\* mutant: the flag is loaded instead of swapped, so it is never set
start_observing_rooms_LoadsFlag(k) ==
    /\ client_calls[k].pc = "idle"
    /\ IF is_observing_rooms
       THEN /\ client_calls' =
                    [client_calls EXCEPT
                        ![k] = [op |-> "start_observing_rooms", pc |-> "done",
                                room_jid |-> None, ret |-> Some("Ok")]]
            /\ UNCHANGED <<is_observing_rooms, loaded>>
       ELSE /\ loaded' = Append(loaded, k)
            /\ UNCHANGED is_observing_rooms
            /\ client_calls' =
                    [client_calls EXCEPT
                        ![k] = [op |-> "start_observing_rooms", pc |-> "load",
                                room_jid |-> None, ret |-> None]]
    /\ UNCHANGED <<connected_rooms, entered>>
    /\ RoomsOnly

\* start_observing_rooms up to the await (31-36): the flag is swapped to true;
\* a call that reads true returns, the other calls the bookmark load
start_observing_rooms(k) ==
    /\ client_calls[k].pc = "idle"
    /\ is_observing_rooms' = TRUE
    /\ IF is_observing_rooms
       THEN /\ client_calls' =
                    [client_calls EXCEPT
                        ![k] = [op |-> "start_observing_rooms", pc |-> "done",
                                room_jid |-> None, ret |-> Some("Ok")]]
            /\ UNCHANGED loaded
       ELSE /\ loaded' = Append(loaded, k)
            /\ client_calls' =
                    [client_calls EXCEPT
                        ![k] = [op |-> "start_observing_rooms", pc |-> "load",
                                room_jid |-> None, ret |-> None]]
    /\ UNCHANGED <<connected_rooms, entered>>
    /\ RoomsOnly

\* load_and_extend_items_from_bookmarks returns (36-37): `?` hands its error on
load_returns(k, ok) ==
    /\ client_calls[k].pc = "load"
    /\ client_calls' =
            [client_calls EXCEPT
                ![k].pc = "done", ![k].ret = IF ok THEN Some("Ok") ELSE Some("Err")]
    /\ UNCHANGED <<connected_rooms, entered, is_observing_rooms, loaded>>
    /\ RoomsOnly

InitRooms ==
    /\ MessagingAbsent
    /\ user_profile_repo = <<>>
    /\ client = "none"
    /\ ping_interval = <<>>
    /\ timeout_interval = <<>>
    /\ delivered = <<>>
    /\ connected_rooms = [room_jid \in RoomJids |-> None]
    /\ entered = <<>>
    /\ is_observing_rooms = FALSE
    /\ loaded = <<>>
    /\ client_calls = [k \in RoomCallIds |-> IdleRoomCall]

NextRooms ==
    \E k \in RoomCallIds :
        \/ \E room_jid \in RoomJids : connect_to_room_if_needed(k, room_jid)
        \/ insert_pending_room(k)
        \/ \E room_info \in {None} \cup {Some(info) : info \in RoomInfos} :
                enter_room_returns(k, room_info)
        \/ start_observing_rooms(k)
        \/ \E ok \in BOOLEAN : load_returns(k, ok)

SpecRooms == InitRooms /\ [][NextRooms]_vars

----------------------------------------------------------------------------
(* Claims on the Room operations *)

ReturnedOk(c) == calls[c].pc = "done" /\ calls[c].ret = "Ok"

\* a send_message or update_message that was given something to send
HasContent(c) ==
    calls[c].op \in {"send_message", "update_message"} /\ ~request_is_empty(calls[c].dto)

IsSlashCommand(c) == calls[c].op = "send_message" /\ "handler" \in DOMAIN calls[c]

\* the calls frame c made to MessagingService
WireCallsBy(c) == {i \in DOMAIN wire : wire[i].dir = "call" /\ wire[i].by = c}

RECURSIVE TotalLen(_, _)
TotalLen(logs, n) == IF n = 0 THEN 0 ELSE Len(logs[n]) + TotalLen(logs, n - 1)

LocalEchoIds ==
    LET rows == SelectSeq(message_repo,
                    LAMBDA row : row.from = ConnectedAccount /\ row.payload.kind = "Message")
    IN  [i \in 1..Len(rows) |-> rows[i].id]

\* the ids of the requests handed to MessagingService.send_message, in the
\* order of the calls
SendCallIds ==
    LET sent == SelectSeq(wire, LAMBDA w : w.dir = "call" /\ w.call = "send_message")
    IN  [i \in 1..Len(sent) |-> sent[i].request.id]

\* the ids of the requests for which MessagingService.send_message returned
\* (Ok, when only_ok), in the order of the returns
SendReturnIds(only_ok) ==
    LET back == SelectSeq(wire,
                    LAMBDA w : /\ w.dir = "return"
                               /\ calls[w.by].op = "send_message"
                               /\ only_ok => w.ok)
    IN  [i \in 1..Len(back) |-> calls[back[i].by].request.id]

\* the ids MessagesAppended was dispatched with for sent requests
AppendedEventIds ==
    LET events == SelectSeq(dispatched,
                      LAMBDA e : /\ e.event = "RoomEvent"
                                 /\ e.type = "MessagesAppended"
                                 /\ Contains(SendCallIds, e.message_ids[1]))
    IN  [i \in 1..Len(events) |-> events[i].message_ids[1]]

\* whether x stands before y in s
Before(s, x, y) == \E i, j \in DOMAIN s : i < j /\ s[i] = x /\ s[j] = y

----------------------------------------------------------------------------
(* Claims on mark_as_read *)

IsMarkAsRead(frame) == frame.op = "mark_as_read"

\* mark_as_read looked the last message up: nothing but the frame changes; an
\* empty repository ends the call
MarkLookup(c) ==
    (calls[c].pc = "idle" /\ IsMarkAsRead(calls'[c])) =>
        /\ UNCHANGED <<data, message_repo, dispatched, wire, saved_settings>>
        /\ IF MessagesRepository_get_last_message(message_repo) = None
           THEN calls'[c].pc = "done" /\ calls'[c].ret = "Ok"
           ELSE /\ calls'[c].pc = "update_settings"
                /\ Some(calls'[c].message_ref) =
                        MessagesRepository_get_last_message(message_repo)

\* mark_as_read came to the settings: equal, it returns with nothing changed;
\* else last_read_message is the message it found, and the save is next
MarkCompare(c) ==
    (IsMarkAsRead(calls[c]) /\ calls[c].pc = "update_settings"
        /\ calls'[c] /= calls[c]) =>
        IF data.settings.last_read_message = Some(calls[c].message_ref)
        THEN /\ UNCHANGED <<data, message_repo, dispatched, wire, saved_settings>>
             /\ calls'[c].pc = "done" /\ calls'[c].ret = "Ok"
             /\ calls'[c].emitted = <<>>
        ELSE /\ data'.settings =
                    [data.settings EXCEPT
                        !.last_read_message = Some(calls[c].message_ref)]
             /\ calls'[c].pc = "save_settings"
             /\ UNCHANGED <<message_repo, dispatched, wire, saved_settings>>

\* mark_as_read saved the settings it wrote: one save_settings, one
\* SidebarChanged, the statistics flagged, whatever the save answered
MarkSave(c) ==
    (IsMarkAsRead(calls[c]) /\ calls[c].pc = "save_settings"
        /\ calls'[c] /= calls[c]) =>
        /\ Len(saved_settings') = Len(saved_settings) + 1
        /\ saved_settings'[Len(saved_settings')].settings.last_read_message =
                Some(calls[c].message_ref)
        /\ dispatched' = Append(dispatched, SidebarChanged)
        /\ data'.needs_update_statistics
        /\ data'.settings = data.settings
        /\ calls'[c].pc = "done" /\ calls'[c].ret = "Ok"
        /\ calls'[c].emitted = <<SidebarChanged>>
        /\ UNCHANGED <<message_repo, wire>>

\* C14: a mark_as_read that finds no message changes nothing; one that finds
\* the message the synced settings already name as read changes no setting,
\* saves nothing and emits nothing; any other sets last_read_message to the
\* message it found, saves once and emits exactly one SidebarChanged
C14_MarkAsReadIdempotent ==
    [][\A c \in CallIds : MarkLookup(c) /\ MarkCompare(c) /\ MarkSave(c)]_vars

\* C14 witness: a mark_as_read that wrote and emitted, then a second one on the
\* same last message that did nothing
C14_Witness ==
    /\ IsMarkAsRead(calls[1]) /\ calls[1].pc = "done"
    /\ calls[1].emitted = <<SidebarChanged>>
    /\ IsMarkAsRead(calls[2]) /\ calls[2].pc = "done"
    /\ "message_ref" \in DOMAIN calls[2]
    /\ calls[2].message_ref = calls[1].message_ref
    /\ calls[2].emitted = <<>>
    /\ Len(saved_settings) = 1
    /\ dispatched = <<SidebarChanged>>

----------------------------------------------------------------------------
(* Claims on toggle_reaction_to_message *)

\* the message toggle_reaction_to_message works on: the last of the reduced
\* parts of `id`
ReducedMessage(id) ==
    LET reduced == reducing_messages(MessagesRepository_get(message_repo, id))
    IN  reduced[Len(reduced)]

\* the emojis the account has on a message, as a set
EmojiSet(message) == Range(reactions_from(message, ConnectedAccount))

\* the step in which call c, a toggle_reaction_to_message, leaves the Room
ToggleStarts(c) ==
    calls[c].pc = "idle" /\ calls'[c].op = "toggle_reaction_to_message"

\* the wire call is keyed by the message id in a user chat and by the server
\* id in a MUC; a MUC message without a server id: an error, no wire call
ToggleKeyed(c) ==
    ToggleStarts(c) =>
        LET message == ReducedMessage(calls'[c].id)
        IN  IF data.room_id.kind = "Muc" /\ message.server_id = None
            THEN /\ wire' = wire
                 /\ calls'[c].pc = "done" /\ calls'[c].ret = "Err"
            ELSE /\ Len(wire') = Len(wire) + 1
                 /\ LET sent == wire'[Len(wire')]
                    IN  IF data.room_id.kind = "User"
                        THEN /\ sent.call = "react_to_chat_message"
                             /\ sent.message_id = calls'[c].id
                        ELSE /\ sent.call = "react_to_muc_message"
                             /\ sent.stanza_id = message.server_id[1]

\* the emojis on the wire are the account's emojis XOR {emoji}
ToggleXor(c) ==
    (ToggleStarts(c) /\ Len(wire') = Len(wire) + 1) =>
        Range(wire'[Len(wire')].emojis) =
            SymDiff(EmojiSet(ReducedMessage(calls'[c].id)), {calls'[c].emoji})

\* Message::toggle_reaction twice gives the account its emoji set back
ToggleTwiceRestores ==
    \A emoji \in {"x", "y"} :
        LET message == ReducedMessage(Id1)
            twice   == toggle_reaction(
                           toggle_reaction(message, ConnectedAccount, emoji),
                           ConnectedAccount, emoji)
        IN  EmojiSet(twice) = EmojiSet(message)

\* C15: toggle_reaction_to_message sends the account's emoji set XOR {emoji},
\* keyed by the message id (user chat) or the server id (MUC), and fails
\* without a wire call when the MUC message has no server id; toggling twice
\* restores the account's emoji set
C15_ToggleSendsXor ==
    /\ []ToggleTwiceRestores
    /\ [][\A c \in CallIds : ToggleKeyed(c) /\ ToggleXor(c)]_vars

\* the parts of C15 that hold of every repository
C15_KeyedAndRestoring ==
    /\ []ToggleTwiceRestores
    /\ [][\A c \in CallIds : ToggleKeyed(c)]_vars

\* the XOR holds when each emoji of the message has one Reaction entry
C15_XorWithoutRepeats ==
    [][\A c \in CallIds :
          (ToggleStarts(c) =>
             \A i, j \in DOMAIN ReducedMessage(calls'[c].id).reactions :
                ReducedMessage(calls'[c].id).reactions[i].emoji =
                    ReducedMessage(calls'[c].id).reactions[j].emoji => i = j)
          => ToggleXor(c)]_vars

----------------------------------------------------------------------------
(* Claims on history loading *)

IsLoad(c) == calls[c].op = "load_messages"

\* where in the archive the item with the server id stands
PositionOf(stanza_id) == CHOOSE i \in DOMAIN archive : archive[i].id = stanza_id

\* where a cursor stands: past the newest item when there is none
CursorPosition(cursor) ==
    IF cursor = None THEN Len(archive) + 1 ELSE PositionOf(cursor[1])

\* the cursor a load returned
ReturnedCursor(c) == calls[c].result_set[1].last_message_id

\* call d was given the cursor call c returned
Chained(c, d) ==
    /\ d = c + 1
    /\ IsLoad(c) /\ ReturnedOk(c) /\ ReturnedCursor(c) /= None
    /\ IsLoad(d) /\ calls[d].before = ReturnedCursor(c)

\* the calls c..d are one walk down the archive
Walk(c, d) == c < d /\ \A k \in c..(d - 1) : Chained(k, k + 1)

\* the server ids call c fetched, page after page
RECURSIVE FetchedIds(_, _)
FetchedIds(c, n) ==
    IF n = 0 THEN <<>>
    ELSE FetchedIds(c, n - 1)
            \o [i \in DOMAIN calls[c].fetched[n].page.messages |->
                    calls[c].fetched[n].page.messages[i].id]

AllFetchedIds(c) == FetchedIds(c, Len(calls[c].fetched))

NoRepeat(s) == \A i, j \in DOMAIN s : s[i] = s[j] => i = j

\* within call c: the first fetch is at the cursor the call was given, every
\* later one at the oldest item of the page before, which is older
CursorFollowsPages(c) ==
    \A i \in DOMAIN calls[c].fetched :
        LET fetch == calls[c].fetched[i]
        IN  IF i = 1 THEN fetch.before = calls[c].before
            ELSE LET previous == calls[c].fetched[i - 1]
                 IN  /\ previous.page.messages /= <<>>
                     /\ fetch.before = Some(previous.page.messages[1].id)
                     /\ CursorPosition(fetch.before) < CursorPosition(previous.before)

\* the cursor call c returned is the oldest item of its last page
ReturnedCursorIsOldest(c) ==
    (IsLoad(c) /\ ReturnedOk(c) /\ ReturnedCursor(c) /= None) =>
        LET last == calls[c].fetched[Len(calls[c].fetched)]
        IN  /\ last.page.messages /= <<>>
            /\ ReturnedCursor(c) = Some(last.page.messages[1].id)
            /\ CursorPosition(ReturnedCursor(c)) < CursorPosition(last.before)

\* C16: the cursor of each fetch is the server id of the oldest item of the
\* page fetched before it, within one load and from one load to the next that
\* is given the returned cursor; the cursor only moves to older items and no
\* item is fetched twice
C16_CursorMonotone ==
    /\ \A c \in CallIds :
          IsLoad(c) => /\ CursorFollowsPages(c)
                       /\ ReturnedCursorIsOldest(c)
                       /\ NoRepeat(AllFetchedIds(c))
    /\ \A c, d \in CallIds :
          Walk(c, d) => Range(AllFetchedIds(c)) \cap Range(AllFetchedIds(d)) = {}

\* C16 witness: a load of two pages, and a second load, given the cursor the
\* first returned, that fetched older items
C16_Witness ==
    /\ Chained(1, 2)
    /\ Len(calls[1].fetched) = 2
    /\ AllFetchedIds(2) /= <<>>
    /\ calls[2].pc = "done"

\* whether an archived message parses to a text message
IsTextMessage(archive_message) ==
    /\ parse_mam_message(archive_message).ok
    /\ parse_mam_message(archive_message).message.payload.kind = "Message"

\* the text messages in the first n pages call c fetched
RECURSIVE TextMessagesSeen(_, _)
TextMessagesSeen(c, n) ==
    IF n = 0 THEN 0
    ELSE TextMessagesSeen(c, n - 1)
            + Cardinality({i \in DOMAIN calls[c].fetched[n].page.messages :
                              IsTextMessage(calls[c].fetched[n].page.messages[i])})

\* C17: a load fetches at most max_message_pages_to_load pages, and no page
\* after one flagged is_last or after message_page_size text messages were
\* seen; ending on an is_last page it returns no cursor, and a cursor it does
\* return is older than the one it was given
C17_BoundedFetches ==
    \A c \in CallIds :
        IsLoad(c) =>
            /\ Len(calls[c].fetched) <= ctx.config.max_message_pages_to_load
            /\ Len(calls[c].fetched) = calls[c].loaded_pages
            /\ \A n \in 1..(Len(calls[c].fetched) - 1) :
                  /\ ~calls[c].fetched[n].page.is_last
                  /\ TextMessagesSeen(c, n) < ctx.config.message_page_size
            /\ calls[c].pc = "fetch" =>
                  /\ Len(calls[c].fetched) < ctx.config.max_message_pages_to_load
                  /\ TextMessagesSeen(c, Len(calls[c].fetched))
                        < ctx.config.message_page_size
                  /\ calls[c].fetched /= <<>> =>
                        ~calls[c].fetched[Len(calls[c].fetched)].page.is_last
            /\ ReturnedOk(c) =>
                  /\ calls[c].fetched /= <<>>
                  /\ calls[c].fetched[Len(calls[c].fetched)].page.is_last
                        => ReturnedCursor(c) = None
                  /\ ReturnedCursor(c) /= None =>
                        CursorPosition(ReturnedCursor(c))
                            < CursorPosition(calls[c].before)

\* C17 witness: a load that stopped at the page cap with text messages still
\* wanted, and the next load, which reached the end of the archive
C17_Witness ==
    /\ Chained(1, 2)
    /\ Len(calls[1].fetched) = 2
    /\ TextMessagesSeen(1, 2) < ctx.config.message_page_size
    /\ ReturnedOk(2)
    /\ ReturnedCursor(2) = None


\* the messages a load returned
ReturnedMessages(c) == calls[c].result_set[1].messages

\* the calls 1..n walked the archive from its newest item to its end
CompleteWalk(n) ==
    /\ IsLoad(1) /\ calls[1].before = None
    /\ n > 1 => Walk(1, n)
    /\ IsLoad(n) /\ ReturnedOk(n) /\ ReturnedCursor(n) = None

\* what the calls n, n - 1, .. 1 returned, oldest first
RECURSIVE WalkMessages(_)
WalkMessages(n) ==
    IF n = 0 THEN <<>> ELSE ReturnedMessages(n) \o WalkMessages(n - 1)

\* the archive's items MessageParser accepts, oldest first
ParsedArchive ==
    LET accepted == SelectSeq(archive, LAMBDA item : parse_mam_message(item).ok)
    IN  [i \in DOMAIN accepted |-> parse_mam_message(accepted[i]).message]

RECURSIVE WalkEvents(_)
WalkEvents(n) ==
    IF n = 0 THEN <<>> ELSE Reversed(calls[n].appended) \o WalkEvents(n - 1)

\* the archive's accepted items but the error messages
LoadableArchive == SelectSeq(ParsedArchive, LAMBDA m : m.payload.kind /= "Error")

\* no two archived messages share a client id
DistinctClientIds ==
    \A i, j \in DOMAIN ParsedArchive :
        (/\ i /= j
         /\ IsMessageOrError(ParsedArchive[i])
         /\ IsMessageOrError(ParsedArchive[j]))
            => ParsedArchive[i].id /= ParsedArchive[j].id

\* the server ids of the messages the walk returned, in order
WalkServerIds(n) ==
    [i \in DOMAIN WalkMessages(n) |-> WalkMessages(n)[i].server_id[1]]

\* the server ids of the archive's text messages, oldest first
TextServerIds ==
    LET texts == SelectSeq(archive, IsTextMessage)
    IN  [i \in DOMAIN texts |-> texts[i].id]

LoadedTextMessages(c) ==
    {calls[c].messages[i] :
        i \in {j \in DOMAIN calls[c].messages :
                  calls[c].messages[j].payload.kind = "Message"}}

\* row targets a text message call c loaded, by client id or by server id
TargetsLoaded(c, row) ==
    /\ row.target /= None
    /\ \E m \in LoadedTextMessages(c) :
          \/ ~StartsWithBangs(m.id) /\ row.target[1] = RemoteId(m.id)
          \/ m.stanza_id /= None /\ row.target[1] = ServerId(m.stanza_id[1])

\* the instant of the newest event call c loaded
NewestLoaded(c) ==
    Max({calls[c].messages[i].timestamp : i \in DOMAIN calls[c].messages})

\* the cached events that target what call c loaded and are strictly newer
\* than all of it, oldest first
LaterCached(c) ==
    SelectSeq(Chronological(message_repo),
              LAMBDA row : TargetsLoaded(c, row) /\ row.timestamp > NewestLoaded(c))

\* C19: a load_messages_before that loaded text messages takes from
\* MessageRepo the events that target them and are strictly newer than the
\* newest loaded event, and no other; load_latest_messages takes none; the
\* returned messages are the reduction of the loaded events, oldest first,
\* followed by the cached ones
C19_LaterTargetingEarlier ==
    \A c \in CallIds :
        IsLoad(c) =>
            /\ calls[c].pc = "append" =>
                  calls[c].later_targeting_earlier_messages =
                      IF calls[c].before /= None /\ LoadedTextMessages(c) /= {}
                      THEN LaterCached(c) ELSE <<>>
            /\ ReturnedOk(c) =>
                  ReturnedMessages(c) =
                      reducing_messages(
                          Reversed(calls[c].appended)
                              \o calls[c].later_targeting_earlier_messages)

\* C19 witness: a load_messages_before that took a cached reaction, left a
\* cached one that was not newer, and returned the message with the reaction
C19_Witness ==
    \E c \in CallIds :
        /\ IsLoad(c) /\ ReturnedOk(c)
        /\ calls[c].before /= None
        /\ calls[c].later_targeting_earlier_messages /= <<>>
        /\ \E i \in DOMAIN message_repo :
              /\ TargetsLoaded(c, message_repo[i])
              /\ message_repo[i].timestamp <= NewestLoaded(c)
              /\ ~Contains(calls[c].appended, message_repo[i])
        /\ \E i \in DOMAIN ReturnedMessages(c) : ReturnedMessages(c)[i].reactions /= <<>>

----------------------------------------------------------------------------
(* Claims on the parsing of archive pages *)

\* an archived message that is kept: it parses, and not to an error message
IsKept(archive_message) ==
    /\ parse_mam_message(archive_message).ok
    /\ parse_mam_message(archive_message).message.payload.kind /= "Error"

\* the kept items of a page, parsed, in the page's order
KeptOf(page_messages) ==
    LET kept == SelectSeq(page_messages, IsKept)
    IN  [i \in DOMAIN kept |-> parse_mam_message(kept[i]).message]

\* what a history load keeps of its first n pages: each page newest first
RECURSIVE KeptByLoad(_, _)
KeptByLoad(c, n) ==
    IF n = 0 THEN <<>>
    ELSE KeptByLoad(c, n - 1) \o Reversed(KeptOf(calls[c].fetched[n].page.messages))

\* what a catch-up keeps of its first n pages: each page oldest first
RECURSIVE KeptByCatchup(_, _)
KeptByCatchup(c, n) ==
    IF n = 0 THEN <<>>
    ELSE KeptByCatchup(c, n - 1) \o KeptOf(calls[c].fetched[n].page.messages)

IsCatchup(c) == calls[c].op = "catchup_room" /\ "fetched" \in DOMAIN calls[c]

TextCount(events) ==
    Cardinality({i \in DOMAIN events : events[i].payload.kind = "Message"})

\* a returned call appended what it kept, and nothing else
Persisted(c) ==
    ReturnedOk(c) =>
        /\ calls[c].appended = calls[c].messages
        /\ \E k \in 0..Len(message_repo) :
              SubSeq(message_repo, k + 1, k + Len(calls[c].appended)) = calls[c].appended

PageSkips(page_messages, error) ==
    /\ \E i \in DOMAIN page_messages : IsKept(page_messages[i])
    /\ \E i \in DOMAIN page_messages :
          IF error = "Error"
          THEN parse_mam_message(page_messages[i]).ok /\ ~IsKept(page_messages[i])
          ELSE /\ ~parse_mam_message(page_messages[i]).ok
               /\ parse_mam_message(page_messages[i]).error = error

----------------------------------------------------------------------------
(* Claims on catchup_room *)

\* the requests of a catch-up follow one another: the first asks for the
\* items since the start of the query, each later one for the items after the
\* last item of the page before it, which was not the last page
CatchupRequestsChained(c) ==
    LET fetched == calls[c].fetched
    IN  \A n \in DOMAIN fetched :
            IF n = 1
            THEN fetched[n].request =
                    [op |-> "load_messages_since", since |-> calls[c].catchup_since,
                     limit |-> CatchupPageSize]
            ELSE LET previous == fetched[n - 1].page
                 IN  /\ ~previous.is_last
                     /\ previous.messages /= <<>>
                     /\ fetched[n].request =
                            [op |-> "load_messages_after",
                             after |-> previous.messages[Len(previous.messages)].id,
                             limit |-> CatchupPageSize]

\* a catch-up is past its loop only when the archive reported is_last
CatchupLoopedToLast(c) ==
    (calls[c].pc = "append" \/ ReturnedOk(c)) =>
        /\ calls[c].fetched /= <<>>
        /\ calls[c].fetched[Len(calls[c].fetched)].page.is_last

\* the unread messages of a batch: its text messages later than the instant
UnreadIn(events, instant) ==
    Cardinality({i \in DOMAIN events :
                    events[i].payload.kind = "Message" /\ events[i].timestamp > instant})

\* the step that ends a catch-up past its loop: the whole batch is appended,
\* the catch-up time is the clock's now, the unread counter is set
CatchupFinishes(c) ==
    LET batch == KeptByCatchup(c, Len(calls[c].fetched))
    IN  /\ ReturnedOk(c)'
        /\ message_repo' = message_repo \o batch
        /\ local_room_settings' =
                [local_room_settings EXCEPT !.last_catchup_time = Some(time_provider)]
        /\ data' = [data EXCEPT
                        !.unread_count =
                            UnreadIn(batch, calls[c].last_read_message_timestamp)]

\* the repository, the settings and the room change in no other step
CatchupWritesOnlyAtEnd ==
    \/ UNCHANGED <<message_repo, local_room_settings, data>>
    \/ \E c \in CallIds : IsCatchup(c) /\ calls[c].pc = "append"

\* without archive support a catch-up returns at once, asks nothing and
\* changes nothing
CatchupWithoutArchive ==
    ~data.features.mam_supported =>
        /\ UNCHANGED <<message_repo, local_room_settings, data, archive>>
        /\ \A c \in CallIds :
              calls'[c].op = "catchup_room" =>
                  /\ ReturnedOk(c)'
                  /\ "fetched" \notin DOMAIN calls'[c]
                  /\ calls'[c].appended = <<>>

ReceivedBefore(before) ==
    {message_repo[i].timestamp : i \in
        {j \in DOMAIN message_repo :
            /\ IsMessageOrError(message_repo[j])
            /\ message_repo[j].stanza_id /= None
            /\ message_repo[j].timestamp < before}}

\* the three instants a catch-up may start from
CatchupStarts ==
    {time_provider - MAX_CATCHUP_DURATION_SECS}
        \cup (IF local_room_settings.last_catchup_time = None THEN {}
              ELSE {local_room_settings.last_catchup_time[1]})
        \cup (IF ReceivedBefore(ctx.connection_timestamp[1]) = {} THEN {}
              ELSE {Max(ReceivedBefore(ctx.connection_timestamp[1]))})

\* C22: the query of a catch-up starts at the latest of the last catch-up
\* time, the instant of the newest message received before the connection
\* opened, and now minus five days; so it never starts before now minus five
\* days, and starts there when the other two are older
C22_CatchupStart ==
    [][ \A c \in CallIds :
            (calls[c].pc = "idle" /\ calls'[c].pc = "since") =>
                /\ calls'[c].catchup_since = Max(CatchupStarts)
                /\ calls'[c].catchup_since >= time_provider - MAX_CATCHUP_DURATION_SECS
                /\ (\A t \in CatchupStarts : t <= time_provider - MAX_CATCHUP_DURATION_SECS)
                      => calls'[c].catchup_since = time_provider - MAX_CATCHUP_DURATION_SECS
      ]_vars

\* a catch-up that starts at now minus five days although the room has a last
\* catch-up time and a received message, both older
C22_Witness ==
    /\ calls[1].op = "catchup_room" /\ calls[1].pc = "since"
    /\ local_room_settings.last_catchup_time /= None
    /\ ReceivedBefore(ctx.connection_timestamp[1]) /= {}
    /\ calls[1].catchup_since > Max(ReceivedBefore(ctx.connection_timestamp[1]))
    /\ calls[1].catchup_since > local_room_settings.last_catchup_time[1]
    /\ calls[1].catchup_since = time_provider - MAX_CATCHUP_DURATION_SECS

----------------------------------------------------------------------------
(* Claims on encrypt_message *)

\* a call of encrypt_message that came as far as looking at the sessions
IsEncrypt(n) ==
    encryption_calls[n].op = "encrypt_message" /\ "sessions" \in DOMAIN encryption_calls[n]

EncryptedOk(n) == IsEncrypt(n) /\ encryption_calls[n].result.ok

\* the user's devices a session counts for: active, trusted or undecided
Counting(sessions, user_id) ==
    {d \in DeviceIds :
        /\ sessions[user_id][d] /= None
        /\ sessions[user_id][d][1].is_active
        /\ sessions[user_id][d][1].trust \in {"Trusted", "Undecided"}}

\* the devices a message of call n is meant for
Addressees(n) ==
    LET call == encryption_calls[n]
    IN  {<<call.recipient_id, d>> : d \in Counting(call.sessions, call.recipient_id)}
        \cup {<<CurrentUser, d>> : d \in Counting(call.sessions, CurrentUser) \ {LocalDeviceId}}

\* the keys of call n that were wrapped for the device of the user
KeysFor(n, target) ==
    LET keys == encryption_calls[n].result.payload.keys
    IN  {i \in DOMAIN keys :
            keys[i].data.user_id = target[1] /\ keys[i].data.device_id = target[2]}

\* each addressee has one key, and each key is an addressee's and is marked
\* with its device id
OneKeyEach(n) ==
    LET keys == encryption_calls[n].result.payload.keys
    IN  /\ \A target \in Addressees(n) : Cardinality(KeysFor(n, target)) = 1
        /\ \A i \in DOMAIN keys :
              /\ <<keys[i].data.user_id, keys[i].data.device_id>> \in Addressees(n)
              /\ keys[i].device_id = keys[i].data.device_id
        /\ KeysFor(n, <<CurrentUser, LocalDeviceId>>) = {}

\* no two keys are marked with the same device id
NoDeviceIdTwice(n) ==
    LET keys == encryption_calls[n].result.payload.keys
    IN  \A i, j \in DOMAIN keys : keys[i].device_id = keys[j].device_id => i = j

C27_NoDevices ==
    \A n \in DOMAIN encryption_calls :
        IsEncrypt(n) =>
            LET call == encryption_calls[n]
                none == Counting(call.sessions, call.recipient_id) = {}
            IN  /\ none => /\ call.result = [ok |-> FALSE, error |-> "NoDevices"]
                           /\ call.wrapped = <<>>
                /\ (~call.result.ok /\ call.result.error = "NoDevices") => none

\* NoDevices although a session with another device of the sender counts and
\* starting the sessions failed
C27_Witness ==
    \E n \in DOMAIN encryption_calls :
        /\ IsEncrypt(n)
        /\ encryption_calls[n].result = [ok |-> FALSE, error |-> "NoDevices"]
        /\ Counting(encryption_calls[n].sessions, CurrentUser) /= {}
        /\ ~encryption_calls[n].sessions_started

----------------------------------------------------------------------------
(* Claims on the round trip of a message *)

\* what the device `target` reads in the payload of call n
ReadOn(n, target) ==
    decrypt_payload_on(target, encryption_calls[n].result.payload, FALSE)

\* the device reads the message that was encrypted
ReadsMessage(n, target) ==
    /\ ReadOn(n, target).ok
    /\ ReadOn(n, target).message = encryption_calls[n].message

\* the payload of call n has the key and the tag wrapped together and the
\* ciphertext without the tag
TagWithKey(n) ==
    LET payload == encryption_calls[n].result.payload
    IN  /\ Len(payload.payload) = Len(as_bytes(encryption_calls[n].message))
        /\ \A k \in DOMAIN payload.keys :
              Len(payload.keys[k].data.wrapped) = KEY_SIZE + MAC_SIZE

\* the id of the device is on one key only
OnlyKeyWithId(n, target) ==
    Cardinality({k \in DOMAIN encryption_calls[n].result.payload.keys :
                    encryption_calls[n].result.payload.keys[k].device_id = target[2]}) = 1

\* C23: every device a message was encrypted for reads the message in the
\* payload: the key and the 16-byte tag are wrapped together, the payload is
\* the ciphertext without the tag, and the device that decrypts joins them
\* again
C23_RoundTrip ==
    \A n \in DOMAIN encryption_calls :
        EncryptedOk(n) =>
            /\ TagWithKey(n)
            /\ \A target \in Addressees(n) : ReadsMessage(n, target)

\* the round trip of the devices whose id is on one key only
C23_RoundTripOneKey ==
    \A n \in DOMAIN encryption_calls :
        EncryptedOk(n) =>
            /\ TagWithKey(n)
            /\ \A target \in Addressees(n) :
                  OnlyKeyWithId(n, target) => ReadsMessage(n, target)

\* a message with a character of two bytes was encrypted for two devices of
\* the contact and read by both
C23_Witness ==
    \E n \in DOMAIN encryption_calls :
        /\ EncryptedOk(n)
        /\ 233 \in Range(encryption_calls[n].message)
        /\ {<<Peer, 1>>, <<Peer, 2>>} \subseteq Addressees(n)
        /\ \A target \in Addressees(n) : ReadsMessage(n, target)

----------------------------------------------------------------------------
(* Claims on received pre-key messages *)

\* the key of the call's payload for the local device
LocalKey(call) == EncryptedPayload_get_key(call.payload, LocalDeviceId)

\* the call handled a key that is flagged is_pre_key: decrypt_message
\* decrypted the message, or the key transport message was accepted
ProcessedPreKey(call) ==
    /\ \/ call.op = "decrypt_message" /\ call.decrypted.ok
       \/ call.op = "handle_received_key_transport_message" /\ call.result.ok
    /\ LocalKey(call)[1].is_pre_key

\* the ids that are missing once the call's key has used its pre-key
MissingAfter(call, pre_keys) ==
    PreKeyIds \ (Range(pre_keys)
                    \ (IF LocalKey(call)[1].data.pre_key = None THEN {}
                       ELSE {LocalKey(call)[1].data.pre_key[1]}))

\* the pre-keys are those with the ids 1..=100, one of each
ExactlyAllPreKeys(pre_keys) ==
    Len(pre_keys) = 100 /\ Range(pre_keys) = PreKeyIds

\* the step is call `call`, and nothing else
IsCall(call) == encryption_calls' = Append(encryption_calls, call)

\* the last call
LastCall == encryption_calls'[Len(encryption_calls')]

\* the call generated the ids and stored them, and published all pre-keys in
\* the order of their ids; or, with no id missing, generated and published
\* nothing
Replenished(call, missing) ==
    /\ ExactlyAllPreKeys(encryption_keys_repo'.pre_keys)
    /\ user_device_service'.bundles[CurrentUser][LocalDeviceId] =
            Some([pre_keys |-> AllPreKeys])
    /\ IF missing = {}
       THEN call.generated = <<>> /\ call.published = <<>>
       ELSE /\ Len(call.generated) = 1
            /\ Range(call.generated[1]) = missing
            /\ Len(call.generated[1]) = Cardinality(missing)
            /\ call.published = <<[pre_keys |-> AllPreKeys]>>

----------------------------------------------------------------------------
(* Claims on the cached body *)

\* decrypt_message of call n failed to decrypt the payload
DecryptFailed(n) ==
    encryption_calls[n].op = "decrypt_message" /\ ~encryption_calls[n].decrypted.ok

\* the rows of the chat with the sender that are the message with the id of
\* call n (message or error), as the repository has them
CachedRows(n) ==
    IF encryption_calls[n].message_id = None THEN <<>>
    ELSE SelectSeq(ChatWith(encryption_calls[n].sender_id),
                   LAMBDA row : /\ IsMessageOrError(row)
                                /\ row.id = encryption_calls[n].message_id[1])

\* the rows among them that have a Message payload
CachedMessages(n) == SelectSeq(CachedRows(n), LAMBDA row : row.payload.kind = "Message")

\* the error with which decrypt_payload failed came back
ErrorSurfaced(n) ==
    /\ ~encryption_calls[n].result.ok
    /\ encryption_calls[n].result.error = encryption_calls[n].decrypted.error

\* C28: when the payload cannot be decrypted and a message id is given,
\* decrypt_message returns the body stored in the repository for the message
\* instead of the error; the error comes back only when no message id is
\* given or the repository has no Message payload for it
C28_CachedBodyInsteadOfError ==
    \A n \in DOMAIN encryption_calls :
        DecryptFailed(n) =>
            IF CachedMessages(n) = <<>>
            THEN ErrorSurfaced(n)
            ELSE /\ encryption_calls[n].result.ok
                 /\ encryption_calls[n].result.message = CachedMessages(n)[1].payload.body.raw

\* the same, where the first row the repository has of the message decides
C28_CachedBodyWhenFirst ==
    \A n \in DOMAIN encryption_calls :
        DecryptFailed(n) =>
            IF CachedRows(n) = <<>> \/ CachedRows(n)[1].payload.kind /= "Message"
            THEN ErrorSurfaced(n)
            ELSE /\ encryption_calls[n].result.ok
                 /\ encryption_calls[n].result.message = CachedRows(n)[1].payload.body.raw

\* a payload that was changed on the way was not decrypted, and the body
\* stored for the message was returned
C28_Witness ==
    \E n \in DOMAIN encryption_calls :
        /\ DecryptFailed(n)
        /\ encryption_calls[n].payload = ReceivedPayload(1, "changed", CHOOSE use \in PreKeyUses : ~use.is_pre_key)
        /\ encryption_calls[n].message_id = Some(Id1)
        /\ encryption_calls[n].result = [ok |-> TRUE, message |-> "A"]

----------------------------------------------------------------------------
(* Claims on the retry guards *)

\* initialize was called between call m and call n
InitializedBetween(m, n) ==
    \E k \in (m + 1)..(n - 1) : encryption_calls[k].op = "initialize"

\* decrypt_message of call n started a session with the device: a repair
Repaired(n, pair) ==
    /\ encryption_calls[n].op = "decrypt_message"
    /\ pair \in Range(encryption_calls[n].started)

\* no pair is repaired twice unless initialize was called in between
RepairedOnce ==
    \A m, n \in DOMAIN encryption_calls :
        \A pair \in Users \X DeviceIds :
            m < n /\ Repaired(m, pair) /\ Repaired(n, pair) => InitializedBetween(m, n)

\* no device is unpublished twice, neither in one call nor in two unless
\* initialize was called in between
UnpublishedOnce ==
    /\ \A n \in DOMAIN encryption_calls :
          \A i, j \in DOMAIN encryption_calls[n].unpublished :
              encryption_calls[n].unpublished[i] = encryption_calls[n].unpublished[j]
                    => i = j
    /\ \A m, n \in DOMAIN encryption_calls :
          \A device_id \in DeviceIds :
              /\ m < n
              /\ device_id \in Range(encryption_calls[m].unpublished)
              /\ device_id \in Range(encryption_calls[n].unpublished)
              => InitializedBetween(m, n)

\* the key of the call's payload for the local device cannot be unwrapped: the
\* primitive fails, or the key was wrapped for another user's device
KeyNotUnwrapped(call) ==
    /\ call.op = "decrypt_message"
    /\ LocalKey(call) /= None
    /\ \/ "decrypt_key" \in call.fails
       \/ LocalKey(call)[1].data.user_id /= CurrentUser

\* a decrypt_message whose key was not unwrapped returned the error, whether
\* it started a repair or not
KeyErrorReturned ==
    \A n \in DOMAIN encryption_calls :
        KeyNotUnwrapped(encryption_calls[n])
            => encryption_calls[n].result = [ok |-> FALSE, error |-> "Other"]

\* a step that takes an element out of a guard set is initialize
OnlyInitializeEmpties ==
    \/ /\ unpublish_device_attempts \subseteq unpublish_device_attempts'
       /\ repair_session_attempts \subseteq repair_session_attempts'
    \/ /\ Len(encryption_calls') = Len(encryption_calls) + 1
       /\ encryption_calls'[Len(encryption_calls')].op = "initialize"
       /\ unpublish_device_attempts' = {}
       /\ repair_session_attempts' = {}

\* C25: over any sequence of operations a session is repaired at most once
\* per (sender, device) and a device of the user is unpublished at most once
\* per device id, until initialize is called; a decrypt_message whose key
\* cannot be unwrapped returns the error also when it started a repair; the
\* two guard sets lose elements only when initialize empties them
C25_RetryGuards ==
    /\ [](RepairedOnce /\ UnpublishedOnce /\ KeyErrorReturned)
    /\ [][OnlyInitializeEmpties]_vars

\* a message of the user's other device was not unwrapped twice: the first
\* time a session was started, which unpublished the device, the second time
\* nothing was started; then a message was encrypted and the device was not
\* unpublished again
C25_Witness ==
    /\ Len(encryption_calls) = 3
    /\ KeyNotUnwrapped(encryption_calls[1])
    /\ Repaired(1, <<CurrentUser, 2>>)
    /\ encryption_calls[1].unpublished = <<2>>
    /\ encryption_calls[1].result = [ok |-> FALSE, error |-> "Other"]
    /\ encryption_calls[2].op = "decrypt_message"
    /\ encryption_calls[2].sender_id = CurrentUser
    /\ encryption_calls[2].payload.device_id = 2
    /\ KeyNotUnwrapped(encryption_calls[2])
    /\ encryption_calls[2].started = <<>>
    /\ encryption_calls[3].op = "encrypt_message"
    /\ <<CurrentUser, 2>> \in Range(encryption_calls[3].started)
    /\ encryption_calls[3].unpublished = <<>>

----------------------------------------------------------------------------
(* Claims on received device lists *)

\* the ids on a device list
IdsOn(devices) == {devices[i].id : i \in DOMAIN devices}

\* the step is a device list of the user being handled while a local device
\* exists
OwnListHandled(call) ==
    /\ call.op = "handle_received_device_list"
    /\ call.user_id = CurrentUser
    /\ encryption_keys_repo.local_device /= None

\* what the step that handles a device list does
Reconciled(call) ==
    /\ call.op = "handle_received_device_list"
    /\ user_device_repo' = [user_device_repo EXCEPT ![call.user_id] = call.device_list]
    /\ IF OwnListHandled(call) /\ LocalDeviceId \notin IdsOn(call.device_list)
       THEN call.publishing =
                <<call.device_list
                    \o <<Device(LocalDeviceId, Some(build_local_device_label))>>>>
       ELSE call.publishing = <<>>
    /\ user_device_service'.device_lists =
            user_device_service.device_lists
                \o (IF call.result.ok THEN call.publishing ELSE <<>>)

\* the last list that was published or received for the user in call n
LastOwnList(n) ==
    IF encryption_calls[n].publishing /= <<>> THEN encryption_calls[n].publishing[1]
    ELSE encryption_calls[n].device_list

----------------------------------------------------------------------------
(* Claims on the classification of payloads *)

\* the stanza that was parsed
ParsedStanza == archive[1].forwarded.stanza[1]

\* the kind of payload the first matching rule of the precedence gives the
\* stanza and the element its target is taken from; "None" when no rule
\* matches
FirstMatch(stanza) ==
    IF stanza.error /= None THEN [kind |-> "Error", target |-> None]
    ELSE IF stanza.reactions /= None
    THEN [kind |-> "Reaction", target |-> Some(ReactionsTarget)]
    ELSE IF stanza.fastening /= None /\ stanza.fastening[1].retract
    THEN [kind |-> "Retraction", target |-> Some(FasteningTarget)]
    ELSE IF stanza.replace /= None /\ stanza.body /= None
    THEN [kind |-> "Correction", target |-> Some(ReplaceTarget)]
    ELSE IF stanza.received_marker /= None
    THEN [kind |-> "DeliveryReceipt", target |-> Some(ReceivedTarget)]
    ELSE IF stanza.displayed_marker /= None
    THEN [kind |-> "ReadReceipt", target |-> Some(DisplayedTarget)]
    ELSE IF stanza.body /= None THEN [kind |-> "Message", target |-> None]
    ELSE [kind |-> "None", target |-> None]

\* the payloads that modify another message
ModifierKinds == {"Reaction", "Retraction", "Correction", "DeliveryReceipt", "ReadReceipt"}

----------------------------------------------------------------------------
(* Claims on the timers of a connection *)

TimerEvents == {"PingTimer", "TimeoutTimer"}

\* this step calls the handler with a timer event of connection k
DeliversTimerEvent(k) ==
    /\ Len(delivered') = Len(delivered) + 1
    /\ delivered'[Len(delivered')].connection = k
    /\ delivered'[Len(delivered')].event \in TimerEvents

\* connect failed, or disconnect was called on the Connection
ClosedByClient(k) ==
    \/ client_calls[k].result = Some("Err")
    \/ client_calls[k].disconnected

\* the transport has reported the loss of connection k
TransportDisconnected(k) ==
    \E i \in DOMAIN delivered : delivered[i] = ConnectionEvent(k, "Disconnected")

\* no Interval of connection k is held any more by a local or a field
TimersCancelled(k) ==
    /\ client_calls[k].ping_interval = None
    /\ client_calls[k].timeout_interval = None
    /\ ping_interval[k] = None
    /\ timeout_interval[k] = None

----------------------------------------------------------------------------
(* Claims on the senders of loaded messages *)

\* the real user id of a participant id: the one the participant list has
\* for it, else the id itself when it is a user's
RealIds(id) ==
    IF id \in DOMAIN data.participants /\ data.participants[id].real_id /= None
    THEN {data.participants[id].real_id[1]}
    ELSE IF id.kind = "User" THEN {id.id} ELSE {}

LiveNames(id) ==
    IF id \in DOMAIN data.participants /\ data.participants[id].name /= None
    THEN {data.participants[id].name[1]}
    ELSE {}

ProfileNames(id) ==
    {user_profile_repo[user_id].name[1] :
        user_id \in {real \in RealIds(id) :
                        /\ real \in DOMAIN user_profile_repo
                        /\ user_profile_repo[real].ok
                        /\ user_profile_repo[real].name /= None}}

\* the nickname of r/a and r/b, the user name of b@p
FormattedNames(id) == {IF id = OccupantA THEN <<"A">> ELSE <<"B">>}

\* sender is what the claim says of the participant id
SenderOf(sender, id) ==
    /\ sender.id \in IF RealIds(id) /= {}
                     THEN {UserParticipant(real) : real \in RealIds(id)}
                     ELSE {id}
    /\ sender.name \in IF LiveNames(id) /= {} THEN LiveNames(id)
                       ELSE IF ProfileNames(id) /= {} THEN ProfileNames(id)
                       ELSE FormattedNames(id)

\* dto is the reduced message with its sender and reaction authors resolved
WithSenders(dto, message) ==
    /\ SenderOf(dto.from, message.from)
    /\ dto.remote_id = message.remote_id
    /\ dto.body = message.body
    /\ DOMAIN dto.reactions = DOMAIN message.reactions
    /\ \A i \in DOMAIN message.reactions :
          /\ dto.reactions[i].emoji = message.reactions[i].emoji
          /\ DOMAIN dto.reactions[i].from = DOMAIN message.reactions[i].from
          /\ \A j \in DOMAIN message.reactions[i].from :
                SenderOf(dto.reactions[i].from[j], message.reactions[i].from[j])

AllWithSenders(dtos, messages) ==
    /\ Len(dtos) = Len(messages)
    /\ \A i \in DOMAIN messages : WithSenders(dtos[i], messages[i])

\* the events call c reduced
LoadedEvents(c) ==
    IF calls[c].op = "load_messages_with_ids" THEN calls[c].messages
    ELSE Reversed(calls[c].messages) \o calls[c].later_targeting_earlier_messages

\* the messages call c returned
LoadedDTOs(c) ==
    IF calls[c].op = "load_messages_with_ids" THEN calls[c].message_dtos
    ELSE calls[c].result_set[1].messages

\* the ids the room was asked to resolve for the batch of call c
ResolvedFor(c) ==
    IF calls[c].op = "load_messages_with_ids" THEN calls[c].resolved
    ELSE add_sender(reducing_messages(LoadedEvents(c))).resolved

LoadedWithSenders(c) ==
    /\ calls[c].op \in {"load_messages_with_ids", "load_messages"}
    /\ calls[c].pc = "done"
    /\ calls[c].ret = "Ok"

\* C32: every message load_messages_with_ids and load_latest_messages return
\* is the reduced message with its sender, and each reaction author, given the
\* participant's real user id where the room knows one (else the id it came
\* with) and the participant's live name, else the profile's display name,
\* else the formatted id; each participant id of the batch is resolved once
C32_SendersResolved ==
    \A c \in CallIds :
        LoadedWithSenders(c) =>
            /\ AllWithSenders(LoadedDTOs(c), reducing_messages(LoadedEvents(c)))
            /\ \A i, j \in DOMAIN ResolvedFor(c) :
                  ResolvedFor(c)[i] = ResolvedFor(c)[j] => i = j
            /\ {ResolvedFor(c)[i] : i \in DOMAIN ResolvedFor(c)}
                  = {SenderIds(reducing_messages(LoadedEvents(c)))[i] :
                        i \in DOMAIN SenderIds(reducing_messages(LoadedEvents(c)))}

\* both operations have returned messages in which occupant a, met several
\* times, has its real id and occupant b keeps its occupant id
C32_Witness ==
    /\ LoadedWithSenders(1) /\ calls[1].op = "load_messages_with_ids"
    /\ LoadedWithSenders(2) /\ calls[2].op = "load_messages"
    /\ \A c \in {1, 2} :
          /\ \E i \in DOMAIN LoadedDTOs(c) :
                LoadedDTOs(c)[i].from.id = UserParticipant(UserA)
          /\ \E i \in DOMAIN LoadedDTOs(c) : LoadedDTOs(c)[i].from.id = OccupantB
          /\ Len(SenderIds(reducing_messages(LoadedEvents(c)))) > Len(ResolvedFor(c))
    /\ \E i \in DOMAIN LoadedDTOs(1) : \E r \in DOMAIN LoadedDTOs(1)[i].reactions :
          Len(LoadedDTOs(1)[i].reactions[r].from) > 1

----------------------------------------------------------------------------
(* Claims on the synced settings under concurrent calls *)

\* the message the settings name as read is replaced by an older one
MovesToOlder(before, after) ==
    /\ before.last_read_message /= None
    /\ after.last_read_message /= None
    /\ after.last_read_message[1].timestamp < before.last_read_message[1].timestamp

\* C33 as stated: under any interleaving of mark_as_read calls with messages
\* that arrive, last_read_message never moves from a message to an older one.
\* Violated: a mark_as_read that read the last message before a newer one
\* arrived writes it after another call has marked the newer one.
C33_LastReadNeverOlder ==
    [][~MovesToOlder(data.settings, data'.settings)]_vars

AllCompleted == \A c \in CallIds : calls[c].pc \in {"idle", "done"}

\* the save_settings call of this step failed
SaveFails ==
    /\ Len(saved_settings') = Len(saved_settings) + 1
    /\ ~saved_settings'[Len(saved_settings')].ok

\* C34 as stated: once the concurrent update_synced_settings calls have
\* completed, the settings passed to save_settings last are the room's
\* settings; a failing save_settings leaves the settings as they are and the
\* operation completes. Violated: the call that stored its settings first may
\* pass them to save_settings last.
C34_LastSavedIsCurrent ==
    /\ []((AllCompleted /\ saved_settings /= <<>>)
             => saved_settings[Len(saved_settings)].settings = data.settings)
    /\ [][SaveFails =>
            /\ data'.settings = data.settings
            /\ \E c \in CallIds :
                  calls[c].pc = "save_settings" /\ calls'[c].pc = "done"
                     /\ calls'[c].ret = "Ok"]_vars

----------------------------------------------------------------------------
(* Claims on the failures of send_message *)

\* call c is a send_message that is not an /omemo command
IsSend(c) == calls[c].op = "send_message" /\ ~IsSlashCommand(c)

\* MessagingService.send_message has returned to call c, with or without error
SendReturned(c, ok) ==
    \E i \in DOMAIN wire : wire[i].dir = "return" /\ wire[i].by = c /\ wire[i].ok = ok

\* the local echo of call c is in the repository
EchoStored(c) ==
    /\ Len(calls[c].appended) = 1
    /\ \E n \in DOMAIN message_repo :
          /\ message_repo[n] = calls[c].appended[1]
          /\ message_repo[n].id = calls[c].request.id
          /\ message_repo[n].payload.kind = "Message"

\* call c has dispatched nothing, appended nothing and called nothing
NothingDone(c) ==
    /\ calls[c].appended = <<>>
    /\ calls[c].emitted = <<>>
    /\ WireCallsBy(c) = {}

\* call c returned an error before it reached the append: encryption failed
EncryptionFailed(c) ==
    /\ calls[c].pc = "done" /\ calls[c].ret = "Err"
    /\ ~SendReturned(c, TRUE) /\ ~SendReturned(c, FALSE)

\* C35: a send_message that is not an /omemo command has its local echo in the
\* repository when the wire call is made and dispatches MessagesAppended only
\* once the wire call has succeeded; when MessagingService.send fails the call
\* returns the error, dispatches nothing and the echo stays; an empty request
\* and a failed encryption append nothing, send nothing and dispatch nothing;
\* nothing is dispatched that no call has emitted
C35_SendFailures ==
    /\ \A c \in CallIds :
          IsSend(c) =>
              /\ WireCallsBy(c) /= {} => EchoStored(c)
              /\ calls[c].emitted /= <<>> =>
                    /\ SendReturned(c, TRUE)
                    /\ calls[c].emitted =
                          <<ClientRoomEvent("MessagesAppended", <<calls[c].request.id>>)>>
              /\ SendReturned(c, FALSE) =>
                    /\ calls[c].pc = "done" /\ calls[c].ret = "Err"
                    /\ calls[c].emitted = <<>>
                    /\ EchoStored(c)
              /\ request_is_empty(calls[c].dto) =>
                    calls[c].pc = "done" /\ calls[c].ret = "Ok" /\ NothingDone(c)
              /\ EncryptionFailed(c) => NothingDone(c)
    /\ Len(dispatched) = TotalLen([c \in CallIds |-> calls[c].emitted], MaxCalls)

\* one send failed on the wire and left its echo, another failed to encrypt
C35_Witness ==
    \E c, d \in CallIds :
        /\ IsSend(c) /\ SendReturned(c, FALSE) /\ EchoStored(c)
        /\ IsSend(d) /\ ~request_is_empty(calls[d].dto) /\ EncryptionFailed(d)
        /\ dispatched = <<>>

\* ---------------------------------------------------------------------------
\* C36: a failing archive page fetch ends catchup_room with the error and
\* without any write

\* the call got past the connection check and then returned the error of a fetch
FetchFailed(c) == IsCatchup(c) /\ calls[c].pc = "done" /\ calls[c].ret = "Err"

\* the step in which the fetch of call c fails
FetchFails(c) ==
    /\ IsCatchup(c)
    /\ calls[c].pc \in {"since", "after"}
    /\ calls'[c].pc = "done"
    /\ calls'[c].ret = "Err"

\* pages that were fetched and parsed before the failing fetch, with messages kept
ParsedBeforeFailure(c) ==
    /\ FetchFailed(c)
    /\ Len(calls[c].fetched) >= 1
    /\ calls[c].messages # <<>>

\* C36: when a page fetch of catchup_room fails, the call returns the error,
\* has appended nothing to the message repository, and the step leaves the
\* repository, last_catchup_time and the unread counter as they were; no step
\* of a call that is still fetching writes any of them either, so pages that
\* were fetched and parsed earlier have left no trace
C36_FailedFetchWritesNothing ==
    /\ [](\A c \in CallIds : FetchFailed(c) => calls[c].appended = <<>>)
    /\ [][\A c \in CallIds :
            (FetchFails(c) \/ (IsCatchup(c) /\ calls[c].pc \in {"since", "after"}))
                => /\ message_repo' = message_repo
                   /\ local_room_settings'.last_catchup_time
                          = local_room_settings.last_catchup_time
                   /\ data'.unread_count = data.unread_count]_vars

\* a catch-up failed on a later page after earlier pages were parsed
C36_Witness ==
    \E c \in CallIds :
        /\ ParsedBeforeFailure(c)
        /\ calls[c].appended = <<>>


\* ---------------------------------------------------------------------------
\* C37: the reaction entries of the reducer's output

\* no Reaction entry of the message is without authors
NoEmptyReaction(message) ==
    \A i \in DOMAIN message.reactions : message.reactions[i].from /= <<>>

\* no participant is listed twice in one entry
NoRepeatedAuthor(message) ==
    \A i \in DOMAIN message.reactions :
        \A m, n \in DOMAIN message.reactions[i].from :
            message.reactions[i].from[m] = message.reactions[i].from[n] => m = n

\* no emoji has two entries on the message
OneEntryPerEmoji(message) ==
    \A i, j \in DOMAIN message.reactions :
        message.reactions[i].emoji = message.reactions[j].emoji => i = j

\* the first two parts hold of every output
C37_EntriesWellFormed ==
    Done => \A k \in DOMAIN result : NoEmptyReaction(result[k]) /\ NoRepeatedAuthor(result[k])

\* C37: in every output of the reducer no Reaction entry has an empty `from`
\* list, no participant is twice in the `from` list of one entry, and each
\* emoji has at most one entry per message, also when the emoji list of a
\* Reaction event repeats an emoji
C37_ReactionsWellFormed ==
    Done => \A k \in DOMAIN result :
                /\ NoEmptyReaction(result[k])
                /\ NoRepeatedAuthor(result[k])
                /\ OneEntryPerEmoji(result[k])

\* ---------------------------------------------------------------------------
\* C38: Message/Error events that share a client id

\* the first Message/Error event with client id k
FirstIndexWithId(inp, k) == Min({i \in MessageIndices(inp) : inp[i].id = k})

\* the text and the attachments an event gives the message built from it
ContentOf(e) ==
    IF e.payload.kind = "Error"
    THEN [raw |-> e.payload.message, attachments |-> <<>>]
    ELSE [raw |-> e.payload.body.raw, attachments |-> e.payload.attachments]

\* no two returned messages carry the same client id
OnePerClientId ==
    \A i, j \in DOMAIN result :
        (result[i].remote_id /= None /\ result[i].remote_id = result[j].remote_id) => i = j

\* the returned messages stand in the order of the first events with their ids
AtEarlierPosition ==
    \A i, j \in DOMAIN result :
        i < j => FirstIndexWithId(input, LiveKeys[i]) < FirstIndexWithId(input, LiveKeys[j])

\* the returned message under key k is built from the last event with that id,
\* and the modifiers that resolve to k are applied to it wherever they stand
LaterOneModified(j) ==
    LET k           == LiveKeys[j]
        later       == LastEventWithId(input, k)
        corrections == Targeting(input, "Correction", k)
    IN  /\ BuiltFrom(result[j], later)
        /\ result[j].is_edited = (corrections /= {})
        /\ result[j].is_delivered = (Targeting(input, "DeliveryReceipt", k) /= {})
        /\ result[j].is_read = (Targeting(input, "ReadReceipt", k) /= {})
        /\ IF corrections = {}
           THEN /\ result[j].body.raw = ContentOf(later).raw
                /\ result[j].attachments = ContentOf(later).attachments
           ELSE /\ result[j].body.raw = input[Max(corrections)].payload.body.raw
                /\ result[j].attachments = input[Max(corrections)].payload.attachments

\* C38: the output holds at most one message per client id; when Message/Error
\* events share an id, the returned message has the content of the later one,
\* stands where the earlier one stood, and the modifiers that target the id
\* act on the later one
C38_LaterReplacesInPlace ==
    Done =>
        /\ OnePerClientId
        /\ Len(LiveKeys) = Len(result)
        /\ \A j \in DOMAIN result : HasMessage(input, LiveKeys[j])
        /\ AtEarlierPosition
        /\ \A j \in DOMAIN result : LaterOneModified(j)

\* an id occurs twice with another message and a Correction of the id between
\* the two: the message is returned first, edited, from the later sender
C38_Witness ==
    /\ Done
    /\ Len(result) = 2
    /\ \E i, m, n, k \in DOMAIN input :
          /\ i < m /\ m < k /\ i < n /\ n < k
          /\ IsMessageOrError(input[i]) /\ IsMessageOrError(input[k])
          /\ input[i].id = input[k].id
          /\ input[i].from /= input[k].from
          /\ IsMessageOrError(input[n]) /\ input[n].id /= input[i].id
          /\ input[m].payload.kind = "Correction"
          /\ TargetKey(input, input[m]) = Some(input[i].id)
          /\ LiveKeys[1] = input[i].id
          /\ result[1].from = input[k].from
          /\ result[1].is_edited

\* ---------------------------------------------------------------------------
\* C39: concurrent connect_to_room_if_needed calls on one room

IsConnect(k) == client_calls[k].op = "connect_to_room_if_needed"

\* the calls that are inside enter_room for the room
Entering(room_jid) ==
    {k \in RoomCallIds :
        IsConnect(k) /\ client_calls[k].pc = "enter"
                     /\ client_calls[k].room_jid = Some(room_jid)}

\* call k returns ret in this step
ConnectReturns(k, ret) ==
    /\ client_calls[k].pc /= "done"
    /\ client_calls'[k].pc = "done"
    /\ client_calls'[k].op = "connect_to_room_if_needed"
    /\ client_calls'[k].ret = Some(ret)

StoredAsRoom(rooms, room_jid) ==
    rooms[room_jid] /= None /\ rooms[room_jid][1].kind /= "Pending"

\* the failing call leaves no entry for its room and the other rooms alone
PlaceholderRemoved(k) ==
    LET room_jid == client_calls'[k].room_jid[1]
    IN  /\ connected_rooms'[room_jid] = None
        /\ \A other \in RoomJids \ {room_jid} :
              connected_rooms'[other] = connected_rooms[other]

\* the part of the claim on a failing enter_room
C39_FailureRemovesPlaceholder ==
    [][\A k \in RoomCallIds : ConnectReturns(k, "Err") => PlaceholderRemoved(k)]_vars

\* C39: of the concurrent connect_to_room_if_needed calls on a room at most one
\* enters the room, every call that returns Ok leaves the room stored as a
\* non-pending Room, and a call whose enter_room failed has removed the
\* PendingRoom, so that the room has no entry as before the call
C39_EnteredOnceAndStored ==
    /\ [](\A room_jid \in RoomJids : Cardinality(Entering(room_jid)) <= 1)
    /\ [][\A k \in RoomCallIds :
            ConnectReturns(k, "Ok") =>
                StoredAsRoom(connected_rooms', client_calls'[k].room_jid[1])]_vars
    /\ C39_FailureRemovesPlaceholder

\* ---------------------------------------------------------------------------
\* C40: start_observing_rooms loads the sidebar items at most once

IsObserve(k) == client_calls[k].op = "start_observing_rooms"

\* call k of start_observing_rooms starts in this step
ObserveStarts(k) ==
    /\ client_calls[k].pc = "idle"
    /\ client_calls'[k].op = "start_observing_rooms"

\* C40: load_and_extend_items_from_bookmarks is called at most once per
\* context, whatever the calls' interleaving: the call that finds
\* is_observing_rooms unset sets it and loads, every call that finds it set
\* returns Ok at once without loading, and the flag stays set when the load
\* fails
C40_LoadsOnce ==
    /\ [](Len(loaded) <= 1)
    /\ [](loaded /= <<>> => is_observing_rooms)
    /\ [][is_observing_rooms => is_observing_rooms']_vars
    /\ [][\A k \in RoomCallIds :
            ObserveStarts(k) =>
                IF is_observing_rooms
                THEN /\ client_calls'[k].pc = "done"
                     /\ client_calls'[k].ret = Some("Ok")
                     /\ loaded' = loaded
                ELSE /\ is_observing_rooms'
                     /\ loaded' = Append(loaded, k)
                     /\ client_calls'[k].pc = "load"]_vars

\* the first call's load failed, another call returned Ok, one load was made
C40_Witness ==
    \E first, later \in RoomCallIds :
        /\ first /= later
        /\ IsObserve(first) /\ IsObserve(later)
        /\ loaded = <<first>>
        /\ client_calls[first].pc = "done" /\ client_calls[first].ret = Some("Err")
        /\ client_calls[later].pc = "done" /\ client_calls[later].ret = Some("Ok")
        /\ is_observing_rooms

====
